---- MODULE Spec2Model ----
(***************************************************************************)
(* A model of apparun's parameter-expression resolution                    *)
(* (src/apparun/expressions.py): parsing of raw expressions, the           *)
(* dependency graph of an expression set, cycle detection, evaluation in   *)
(* dependency order with the injection of the enum flags, and the batch    *)
(* resolution ImpactModelParamsValues.from_dict.                           *)
(*                                                                         *)
(* Floats are modelled by integers.  A raw string carries its text `s`     *)
(* together with what the grammar validator answers for it (`valid`) and   *)
(* the tree sympy parses it to (`ast`).                                    *)
(***************************************************************************)
EXTENDS Integers, Sequences, FiniteSets, TLC

VARIABLES
    pc,           \* where the running call is
    call,         \* "evaluate" (build + dependencies_cycle + evaluate) or "from_dict"
    raws,         \* argument `expressions` of ParamsValuesSet.build
    expressions,  \* ParamsValuesSet.expressions of the set being evaluated
    cycle,        \* what dependencies_cycle() returned
    order,        \* local `order` of evaluate
    done,         \* number of names of reversed(order) already processed
    ev_values,    \* local `values` of evaluate (the running value set)
    steps,        \* history: the names processed by evaluate, in processing order
    values,       \* argument `values` of from_dict
    size,         \* local `size` of from_dict
    list_values,  \* local `list_values` of from_dict (name -> list of raws)
    exprs_sets,   \* local `exprs_sets` of from_dict
    idx,          \* loop index of the running loop of from_dict
    final_values, \* local `final_values` of from_dict
    errors,       \* local `errors` of step 5 of from_dict
    warnings,     \* what logger.warning was called with, in call order
    exc,          \* the exception the call raised, if any
    result,       \* what the call returned, if it returned
    arg_raw,      \* argument `raw_expr` of ParamExpr.parse
    arg_param,    \* argument `param` of ParamExpr.parse
    parsed,       \* outcome of ParamExpr.parse(arg_raw, arg_param)
    reparsed,     \* outcome of parsing the raw_version of the parsed expression
    expr,         \* argument `expr` of validate_expr, a sequence of characters
    expr_copy,    \* local `expr_copy` of validate_expr: the text left to scan
    valid,        \* local `valid` of validate_expr
    previous_token, \* local `previous_token` of validate_expr
    nb_paren,     \* local `nb_paren` of validate_expr
    scores,       \* the impact methods LCIAScores.scores holds a score for
    filenorm,     \* the rows of the csv file `filenorm` names
    fileweight,   \* the rows of the csv file `fileweight` names, if one is given
    u_sum,        \* argument `u_sum` of to_unique_score_df
    member,       \* `self` of to_short_name / to_full_name
    converted,    \* what the conversion of `member` returned
    back,         \* what the opposite conversion of `converted` returned
    INPUT_PANELS, \* registry INPUT_PANELS of gui/panels/base.py
    OUTPUT_PANELS, \* registry OUTPUT_PANELS of gui/panels/base.py
    decorated     \* history: the (panel_type, class) pairs decorated so far

vars == << pc, call, raws, expressions, cycle, order, done, ev_values, steps,
           values, size, list_values, exprs_sets, idx, final_values, errors,
           warnings, exc, result, arg_raw, arg_param, parsed, reparsed,
           expr, expr_copy, valid, previous_token, nb_paren,
           scores, filenorm, fileweight, u_sum, member, converted, back,
           INPUT_PANELS, OUTPUT_PANELS, decorated >>

evalVars == << raws, expressions, cycle, order, done, ev_values, steps >>
batchVars == << values, size, list_values, exprs_sets, idx, final_values,
                errors, warnings >>
parseVars == << arg_raw, arg_param, parsed, reparsed >>
grammarVars == << expr, expr_copy, valid, previous_token, nb_paren >>
scoreVars == << scores, filenorm, fileweight, u_sum >>
enumVars == << member, converted, back >>
panelVars == << INPUT_PANELS, OUTPUT_PANELS, decorated >>

(***************************************************************************)
(* Bounds                                                                  *)
(***************************************************************************)
\* longest sequence supplied to from_dict
MaxBatch == 2

(***************************************************************************)
(* Small helpers                                                           *)
(***************************************************************************)
Empty == << >>

\* `fileweight=None`, and the rows of a file that is given
NoFile == [ given |-> FALSE, methods |-> {} ]
File(methods) == [ given |-> TRUE, methods |-> methods ]

Range(f) == { f[x] : x \in DOMAIN f }

Restrict(f, S) == [ x \in (DOMAIN f) \cap S |-> f[x] ]

\* the injective sequences enumerating the finite set S
Perms(S) ==
    { p \in [1..Cardinality(S) -> S] : \A i, j \in 1..Cardinality(S) : p[i] = p[j] => i = j }

Reverse(s) == [ i \in 1..Len(s) |-> s[Len(s) + 1 - i] ]

Repeat(x, n) == [ i \in 1..n |-> x ]

(***************************************************************************)
(* Values: a float (integer here), a string, or what an evaluation that    *)
(* could not produce a number leaves behind.                               *)
(***************************************************************************)
VFloat(n) == [ t |-> "float", n |-> n, s |-> "" ]
VStr(s) == [ t |-> "str", n |-> 0, s |-> s ]
VSymbolic == [ t |-> "symbolic", n |-> 0, s |-> "" ]
VKeyError(k) == [ t |-> "KeyError", n |-> 0, s |-> k ]

(***************************************************************************)
(* Formula trees (what sympy parses a formula text to)                     *)
(***************************************************************************)
Num(n) == [ op |-> "num", n |-> n ]
Sym(s) == [ op |-> "sym", s |-> s ]
Add(l, r) == [ op |-> "add", l |-> l, r |-> r ]
Mul(l, r) == [ op |-> "mul", l |-> l, r |-> r ]
\* Piecewise((a, c), (b, True))
Piecewise(a, c, b) == [ op |-> "piecewise", a |-> a, c |-> c, b |-> b ]

RECURSIVE free_symbols(_)
free_symbols(ast) ==
    CASE ast.op = "num" -> {}
      [] ast.op = "sym" -> { ast.s }
      [] ast.op \in {"add", "mul"} -> free_symbols(ast.l) \cup free_symbols(ast.r)
      [] ast.op = "piecewise" ->
            free_symbols(ast.a) \cup free_symbols(ast.c) \cup free_symbols(ast.b)

\* sympify(expr).evalf(subs=...): a symbol without a value stays symbolic
RECURSIVE evalf(_, _)
evalf(ast, subs) ==
    CASE ast.op = "num" -> VFloat(ast.n)
      [] ast.op = "sym" ->
            IF ast.s \in DOMAIN subs /\ subs[ast.s].t = "float"
            THEN subs[ast.s] ELSE VSymbolic
      [] ast.op \in {"add", "mul"} ->
            LET l == evalf(ast.l, subs)
                r == evalf(ast.r, subs)
            IN  IF l.t # "float" \/ r.t # "float" THEN VSymbolic
                ELSE IF ast.op = "add" THEN VFloat(l.n + r.n) ELSE VFloat(l.n * r.n)
      [] ast.op = "piecewise" ->
            LET c == evalf(ast.c, subs)
            IN  IF c.t # "float" THEN VSymbolic
                ELSE IF c.n # 0 THEN evalf(ast.a, subs) ELSE evalf(ast.b, subs)

(***************************************************************************)
(* Raw expressions: number, string, mapping                                *)
(***************************************************************************)
RNum(n) == [ k |-> "num", n |-> n ]
RStr(s, verdict, ast) == [ k |-> "str", s |-> s, valid |-> verdict, ast |-> ast ]
RLit(s) == RStr(s, TRUE, Sym(s))
RDict(d) == [ k |-> "dict", d |-> d ]

(***************************************************************************)
(* The parameter catalog (ImpactModelParams) of the piecewise scenario     *)
(***************************************************************************)
Names == { "architecture", "cuda_core", "lifespan" }

Parameters ==
    [ architecture |->
        [ name |-> "architecture", type |-> "enum", default |-> RLit("Maxwell"),
          options |-> << "Pascal", "Maxwell" >>, bounded |-> FALSE, min |-> 0, max |-> 0 ],
      cuda_core |->
        [ name |-> "cuda_core", type |-> "float", default |-> RNum(0),
          options |-> << >>, bounded |-> TRUE, min |-> 0, max |-> 100 ],
      lifespan |->
        [ name |-> "lifespan", type |-> "float", default |-> RNum(2),
          options |-> << >>, bounded |-> FALSE, min |-> 0, max |-> 0 ] ]

Options(p) == Range(Parameters[p].options)

\* the name of the flag of option o of the enum parameter p
Dummy(p, o) == p \o "_" \o o

\* ImpactModelParams.find_corresponding_parameter: the parameters a token names,
\* directly or as one of their flags
Corresponding(token) ==
    { p \in Names :
        \/ p = token
        \/ Parameters[p].type = "enum" /\ \E o \in Options(p) : Dummy(p, o) = token }

\* with must_find_one=True the lookup raises ValueError unless exactly one matches
find_corresponding_parameter(token) ==
    IF Cardinality(Corresponding(token)) = 1
    THEN [ ok |-> TRUE, name |-> CHOOSE p \in Corresponding(token) : TRUE ]
    ELSE [ ok |-> FALSE, name |-> "" ]

\* EnumParam.transform: one flag per declared option
transform(p, v) ==
    [ f \in { Dummy(p, o) : o \in Options(p) } |->
        LET o == CHOOSE o \in Options(p) : Dummy(p, o) = f
        IN  IF v.t = "str" /\ v.s = o THEN VFloat(1) ELSE VFloat(0) ]

(***************************************************************************)
(* Expressions                                                             *)
(***************************************************************************)
ParamFloatConst(v) == [ kind |-> "ParamFloatConst", value |-> v ]
ParamEnumConst(v) == [ kind |-> "ParamEnumConst", value |-> v ]
ParamFloatExpr(raw) == [ kind |-> "ParamFloatExpr", expr |-> raw ]
ParamEnumExpr(p, opts) == [ kind |-> "ParamEnumExpr", param |-> p, options |-> opts ]

Parsed(e) == [ ok |-> TRUE, expr |-> e, errs |-> {} ]
Failed(types) == [ ok |-> FALSE, expr |-> Empty, errs |-> types ]

validate_expr(raw) == raw.valid

\* a dependency check that accepts any existing parameter, whatever its type
validate_dependencies_existence_only(raw) ==
    { "no_such_param" : dep \in { d \in free_symbols(raw.ast) :
                                    ~find_corresponding_parameter(d).ok } }

\* ParamFloatExpr.validate_dependencies: the error of the first offending
\* dependency met; free_symbols is a set, so any offending one may be first
validate_dependencies(raw) ==
    { "no_such_param" : dep \in { d \in free_symbols(raw.ast) :
                                    ~find_corresponding_parameter(d).ok } }
    \cup
    { "dependencies_type" : dep \in { d \in free_symbols(raw.ast) :
                                    d \in Names /\ Parameters[d].type = "enum" } }

\* a selector check that accepts any existing parameter, whatever its type
validate_param_untyped(raw) ==
    IF Cardinality(DOMAIN raw.d) # 1 THEN { "too_much_dependencies" }
    ELSE LET dependency == CHOOSE x \in DOMAIN raw.d : TRUE
         IN  IF dependency \notin Names THEN { "no_such_param" } ELSE {}

\* ParamEnumExpr.validate_param
validate_param(raw) ==
    IF Cardinality(DOMAIN raw.d) # 1 THEN { "too_much_dependencies" }
    ELSE LET dependency == CHOOSE x \in DOMAIN raw.d : TRUE
         IN  IF dependency \notin Names THEN { "no_such_param" }
             ELSE IF Parameters[dependency].type # "enum" THEN { "dependencies_type" }
             ELSE {}

\* ParamEnumExpr.validate_options, on the output of validate_param
validate_options(param, options) ==
    IF Options(param) \ DOMAIN options # {} THEN { "enum_expr_options" }
    ELSE IF DOMAIN options \ Options(param) # {} THEN { "enum_expr_options" }
    ELSE IF \E o \in DOMAIN options : options[o].k = "none"
         THEN { "enum_expr_empty_options" }
    ELSE {}

\* ParamExpr.parse
RECURSIVE parse(_, _)
parse(raw_expr, param) ==
    CASE raw_expr.k = "dict" ->
            IF validate_param(raw_expr) # {} THEN Failed(validate_param(raw_expr))
            ELSE LET dependency == CHOOSE x \in DOMAIN raw_expr.d : TRUE
                     options == raw_expr.d[dependency]
                 IN  IF validate_options(dependency, options) # {}
                     THEN Failed(validate_options(dependency, options))
                     ELSE LET subs == [ o \in DOMAIN options |-> parse(options[o], param) ]
                          IN  IF \E o \in DOMAIN subs : ~subs[o].ok
                              THEN Failed(UNION { subs[o].errs : o \in DOMAIN subs })
                              ELSE Parsed(ParamEnumExpr(dependency,
                                            [ o \in DOMAIN subs |-> subs[o].expr ]))
      [] raw_expr.k = "str" /\ Parameters[param].type = "enum" ->
            Parsed(ParamEnumConst(VStr(raw_expr.s)))
      [] raw_expr.k = "str" /\ Parameters[param].type = "float" ->
            IF ~validate_expr(raw_expr) THEN Failed({ "float_expr" })
            ELSE IF validate_dependencies(raw_expr) # {}
                 THEN Failed(validate_dependencies(raw_expr))
            ELSE Parsed(ParamFloatExpr(raw_expr))
      [] raw_expr.k = "num" -> Parsed(ParamFloatConst(VFloat(raw_expr.n)))
      [] OTHER -> Failed({ "float_type" })

RECURSIVE dependencies(_)
dependencies(e) ==
    CASE e.kind = "ParamFloatExpr" -> free_symbols(e.expr.ast)
      [] e.kind = "ParamEnumExpr" ->
            { e.param } \cup UNION { dependencies(e.options[o]) : o \in DOMAIN e.options }
      [] OTHER -> {}

is_complex(e) == e.kind \in { "ParamFloatExpr", "ParamEnumExpr" }

\* ParamExpr.evaluate of the four kinds
RECURSIVE evaluate_expr(_, _)
evaluate_expr(e, dependencies_values) ==
    CASE e.kind \in { "ParamFloatConst", "ParamEnumConst" } -> e.value
      [] e.kind = "ParamFloatExpr" -> evalf(e.expr.ast, dependencies_values)
      [] e.kind = "ParamEnumExpr" ->
            IF e.param \notin DOMAIN dependencies_values THEN VKeyError(e.param)
            ELSE LET v == dependencies_values[e.param]
                 IN  IF v.t # "str" \/ v.s \notin DOMAIN e.options THEN VKeyError(v.s)
                     ELSE evaluate_expr(e.options[v.s], dependencies_values)

(***************************************************************************)
(* Exceptions.  A ValidationError carries line errors; `detail` holds the  *)
(* error types of a parse failure, the parameters of a cycle, or the       *)
(* offending value; `idx` tells apart the occurrences of one error at      *)
(* several batch indices (0 outside a batch).                              *)
(***************************************************************************)
LineError(type, param, index, detail) ==
    [ type |-> type, param |-> param, idx |-> index, detail |-> detail ]

Raised(type, key, line_errors) == [ type |-> type, key |-> key, errors |-> line_errors ]

NoExc == Raised("none", "", {})

(***************************************************************************)
(* ParamsValuesSet                                                         *)
(***************************************************************************)
\* a build that gives up at the first entry that fails to parse
build_errors_first(raw_expressions) ==
    LET failing == { n \in DOMAIN raw_expressions : ~parse(raw_expressions[n], n).ok }
    IN  IF failing = {} THEN {}
        ELSE LET name == CHOOSE n \in failing : TRUE
             IN  { LineError("invalid_expression", name, 0,
                             parse(raw_expressions[name], name).errs) }

\* ParamsValuesSet.build: parse every entry, collect the errors of all of them
build_errors(raw_expressions) ==
    { LineError("invalid_expression", name, 0, parse(raw_expressions[name], name).errs) :
        name \in { n \in DOMAIN raw_expressions : ~parse(raw_expressions[n], n).ok } }

\* a build that hands back the entries that parsed although others failed
build_partial(raw_expressions) ==
    [ ok |-> TRUE, errs |-> {},
      expressions |-> [ name \in { n \in DOMAIN raw_expressions :
                                     parse(raw_expressions[n], n).ok } |->
                           parse(raw_expressions[name], name).expr ] ]

build(raw_expressions) ==
    IF build_errors(raw_expressions) # {}
    THEN [ ok |-> FALSE, errs |-> build_errors(raw_expressions), expressions |-> Empty ]
    ELSE [ ok |-> TRUE, errs |-> {},
           expressions |-> [ name \in DOMAIN raw_expressions |->
                                parse(raw_expressions[name], name).expr ] ]

\* the edges (name, dep), both ends normalised to their catalog parameter
dependencies_graph(exprs) ==
    UNION { { << find_corresponding_parameter(name).name,
                 find_corresponding_parameter(dep).name >> : dep \in dependencies(exprs[name]) } :
            name \in DOMAIN exprs }

Nodes(G) == { e[1] : e \in G } \cup { e[2] : e \in G }

\* the simple cycles of G, each as the sequence of the tails of its edges
Cycles(G) ==
    UNION { { c \in Perms(S) :
                \A i \in 1..Len(c) : << c[i], c[(i % Len(c)) + 1] >> \in G } :
            S \in SUBSET Nodes(G) \ { {} } }

\* a detection that overlooks a formula referencing its own parameter
dependencies_cycle_no_self(exprs) ==
    IF { c \in Cycles(dependencies_graph(exprs)) : Len(c) > 1 } = {} THEN { Empty }
    ELSE { c \in Cycles(dependencies_graph(exprs)) : Len(c) > 1 }

\* ParamsValuesSet.dependencies_cycle: the lists nx.find_cycle may produce,
\* the empty list when it raises NetworkXNoCycle
dependencies_cycle(exprs) ==
    IF Cycles(dependencies_graph(exprs)) = {} THEN { Empty }
    ELSE Cycles(dependencies_graph(exprs))

\* nx.topological_sort: the orders in which every edge points forward
topological_sort(G) ==
    { p \in Perms(Nodes(G)) :
        \A e \in G : \E i, j \in 1..Len(p) : i < j /\ p[i] = e[1] /\ p[j] = e[2] }

\* an order made of the nodes of the graph alone
evaluate_order_graph_only(exprs) == topological_sort(dependencies_graph(exprs))

\* an order that ignores the dependencies: any arrangement of the names
evaluate_order_any(exprs) == Perms(DOMAIN exprs \cup Nodes(dependencies_graph(exprs)))

\* the values `order` can take in evaluate: a topological sort followed by the
\* names of the map that are no node of the graph, in the map's key order
\* (the key order is part of the input, so any order of them is covered)
evaluate_order(exprs) ==
    { t \o rest : t \in topological_sort(dependencies_graph(exprs)),
                  rest \in Perms(DOMAIN exprs \ Nodes(dependencies_graph(exprs))) }

\* a loop that forgets reversed()
processing_forward(ord) == ord

\* the names in the order the loop of evaluate processes them
processing(ord) == Reverse(ord)

\* an evaluation that forgets the flags
inject_flags_skip(vals, name) == vals

\* the flags of an enum parameter join the running values
inject_flags(vals, name) ==
    IF Parameters[name].type = "enum" THEN transform(name, vals[name]) @@ vals ELSE vals

\* an iteration that hands an expression the values of catalog parameters only
evaluate_one_names_only(exprs, vals, name) ==
    IF name \notin DOMAIN exprs
    THEN [ ok |-> FALSE, key |-> name, values |-> vals ]
    ELSE LET deps_values == Restrict(vals, dependencies(exprs[name]) \cap Names)
             v == evaluate_expr(exprs[name], deps_values)
         IN  IF v.t = "KeyError" THEN [ ok |-> FALSE, key |-> v.s, values |-> vals ]
             ELSE [ ok |-> TRUE, key |-> "",
                    values |-> inject_flags((name :> v) @@ vals, name) ]

\* an iteration that falls back on the catalog default of a parameter without expression
evaluate_one_default(exprs, vals, name) ==
    LET e == IF name \in DOMAIN exprs THEN exprs[name]
             ELSE parse(Parameters[name].default, name).expr
        deps_values == Restrict(vals, dependencies(e))
        v == evaluate_expr(e, deps_values)
    IN  IF v.t = "KeyError" THEN [ ok |-> FALSE, key |-> v.s, values |-> vals ]
        ELSE [ ok |-> TRUE, key |-> "",
               values |-> inject_flags((name :> v) @@ vals, name) ]

\* one iteration of the loop of evaluate
evaluate_one(exprs, vals, name) ==
    IF name \notin DOMAIN exprs
    THEN [ ok |-> FALSE, key |-> name, values |-> vals ]
    ELSE LET deps_values == Restrict(vals, dependencies(exprs[name]))
             v == evaluate_expr(exprs[name], deps_values)
         IN  IF v.t = "KeyError" THEN [ ok |-> FALSE, key |-> v.s, values |-> vals ]
             ELSE [ ok |-> TRUE, key |-> "",
                    values |-> inject_flags((name :> v) @@ vals, name) ]

\* the whole loop of evaluate over the names seq, from the running values vals
RECURSIVE evaluate_loop(_, _, _)
evaluate_loop(exprs, vals, seq) ==
    IF seq = << >> THEN [ ok |-> TRUE, key |-> "", values |-> vals ]
    ELSE LET one == evaluate_one(exprs, vals, Head(seq))
         IN  IF ~one.ok THEN one ELSE evaluate_loop(exprs, one.values, Tail(seq))

(***************************************************************************)
(* Raw expressions of the scenarios                                        *)
(***************************************************************************)
PascalFlag == "architecture_Pascal"

CudaPiecewise ==
    RStr("Piecewise((1000, architecture_Pascal), (100, True))", TRUE,
         Piecewise(Num(1000), Sym(PascalFlag), Num(100)))

\* the raw expressions a batch draws the value of parameter p from
BatchAlphabet(p) ==
    CASE p = "architecture" -> << RLit("Pascal"), RLit("Volta") >>
      [] p = "cuda_core" ->
            << CudaPiecewise,
               RDict([ architecture |->
                        [ Pascal |-> RNum(1000),
                          Maxwell |-> RStr("lifespan + 1", TRUE, Add(Sym("lifespan"), Num(1))) ] ]),
               RStr("lifespan * 2", TRUE, Mul(Sym("lifespan"), Num(2))),
               RStr("2*lifespan +*", FALSE, Num(0)) >>
      [] p = "lifespan" ->
            << RNum(3),
               RStr("cuda_core + 1", TRUE, Add(Sym("cuda_core"), Num(1))),
               RStr("foo + 1", TRUE, Add(Sym("foo"), Num(1))) >>

\* the raw expressions a single expression set draws the expression of p from
Alphabet(p) ==
    CASE p = "architecture" ->
            BatchAlphabet(p) \o
            << RLit("Maxwell"),
               RDict([ architecture |-> [ Pascal |-> RLit("Maxwell"), Maxwell |-> RLit("Pascal") ] ]) >>
      [] p = "cuda_core" ->
            BatchAlphabet(p) \o
            << RNum(512),
               RStr("cuda_core + 1", TRUE, Add(Sym("cuda_core"), Num(1))) >>
      [] p = "lifespan" ->
            BatchAlphabet(p) \o
            << RStr("architecture + 1", TRUE, Add(Sym("architecture"), Num(1))) >>

\* the maps a caller can hand to build: some parameters, one raw expression each
RawMaps ==
    UNION { { [ p \in S |-> Alphabet(p)[f[p]] ] :
                f \in { g \in [S -> 1..6] : \A p \in S : g[p] <= Len(Alphabet(p)) } } :
            S \in SUBSET Names }

(***************************************************************************)
(* A caller that builds one expression set, asks for its cycle and         *)
(* evaluates it                                                            *)
(***************************************************************************)
InitEval ==
    /\ call = "evaluate"
    /\ pc = "build"
    /\ raws \in RawMaps
    /\ expressions = Empty
    /\ cycle = Empty
    /\ order = Empty
    /\ done = 0
    /\ ev_values = Empty
    /\ steps = Empty
    /\ values = Empty
    /\ size = 0
    /\ list_values = Empty
    /\ exprs_sets = Empty
    /\ idx = 0
    /\ final_values = Empty
    /\ errors = {}
    /\ warnings = {}
    /\ exc = NoExc
    /\ result = Empty
    /\ arg_raw = Empty
    /\ arg_param = ""
    /\ parsed = Empty
    /\ reparsed = Empty
    /\ expr = Empty
    /\ expr_copy = Empty
    /\ valid = TRUE
    /\ previous_token = "None"
    /\ nb_paren = 0
    /\ scores = {}
    /\ filenorm = {}
    /\ fileweight = NoFile
    /\ u_sum = FALSE
    /\ member = Empty
    /\ converted = Empty
    /\ back = Empty
    /\ INPUT_PANELS = Empty
    /\ OUTPUT_PANELS = Empty
    /\ decorated = Empty

\* ParamsValuesSet.build
Build ==
    /\ call = "evaluate"
    /\ pc = "build"
    /\ IF build(raws).ok
       THEN /\ expressions' = build(raws).expressions
            /\ pc' = "dependencies_cycle"
            /\ exc' = exc
       ELSE /\ expressions' = expressions
            /\ pc' = "raised"
            /\ exc' = Raised("ValidationError", "", build(raws).errs)
    /\ UNCHANGED << call, raws, cycle, order, done, ev_values, steps, result >>
    /\ UNCHANGED batchVars
    /\ UNCHANGED << parseVars, grammarVars, scoreVars, enumVars, panelVars >>

\* ParamsValuesSet.dependencies_cycle
DependenciesCycle ==
    /\ call = "evaluate"
    /\ pc = "dependencies_cycle"
    /\ cycle' \in dependencies_cycle(expressions)
    /\ pc' = "evaluate"
    /\ UNCHANGED << call, raws, expressions, order, done, ev_values, steps, exc, result >>
    /\ UNCHANGED batchVars
    /\ UNCHANGED << parseVars, grammarVars, scoreVars, enumVars, panelVars >>

\* ParamsValuesSet.evaluate, up to its loop
EvaluateBegin ==
    /\ call = "evaluate"
    /\ pc = "evaluate"
    /\ IF Empty \notin dependencies_cycle(expressions)
       THEN /\ pc' = "raised"
            /\ exc' = Raised("ValueError", "", {})
            /\ order' = order
       ELSE /\ order' \in evaluate_order(expressions)
            /\ pc' = "loop"
            /\ exc' = exc
    /\ done' = 0
    /\ ev_values' = Empty
    /\ UNCHANGED << call, raws, expressions, cycle, steps, result >>
    /\ UNCHANGED batchVars
    /\ UNCHANGED << parseVars, grammarVars, scoreVars, enumVars, panelVars >>

\* one iteration of the loop of evaluate
EvaluateStep ==
    /\ call = "evaluate"
    /\ pc = "loop"
    /\ done < Len(order)
    /\ LET name == processing(order)[done + 1]
           one == evaluate_one(expressions, ev_values, name)
       IN  IF one.ok
           THEN /\ ev_values' = one.values
                /\ done' = done + 1
                /\ steps' = Append(steps, name)
                /\ UNCHANGED << pc, exc >>
           ELSE /\ pc' = "raised"
                /\ exc' = Raised("KeyError", one.key, {})
                /\ UNCHANGED << ev_values, done, steps >>
    /\ UNCHANGED << call, raws, expressions, cycle, order, result >>
    /\ UNCHANGED batchVars
    /\ UNCHANGED << parseVars, grammarVars, scoreVars, enumVars, panelVars >>

\* the return of evaluate
EvaluateReturn ==
    /\ call = "evaluate"
    /\ pc = "loop"
    /\ done = Len(order)
    /\ result' = ev_values
    /\ pc' = "returned"
    /\ UNCHANGED << call, raws, expressions, cycle, order, done, ev_values, steps, exc >>
    /\ UNCHANGED batchVars
    /\ UNCHANGED << parseVars, grammarVars, scoreVars, enumVars, panelVars >>

NextEval == Build \/ DependenciesCycle \/ EvaluateBegin \/ EvaluateStep \/ EvaluateReturn

SpecEval == InitEval /\ [][NextEval]_vars

(***************************************************************************)
(* ImpactModelParamsValues.from_dict.  A value of the argument `values` is *)
(* a scalar (list = FALSE, v = << raw >>) or a list of raws.  Sequences    *)
(* are indexed from 1: batch index i of the code is position i + 1.        *)
(***************************************************************************)
Scalar(raw) == [ list |-> FALSE, v |-> << raw >> ]
List(seq) == [ list |-> TRUE, v |-> seq ]

\* an input left without the catalog defaults
all_values_no_default(vals) == vals

\* `all_values`: the input, and the catalog default of every parameter it lacks
all_values(vals) ==
    [ name \in DOMAIN vals \cup Names |->
        IF name \in DOMAIN vals THEN vals[name] ELSE Scalar(Parameters[name].default) ]

\* a check that reports the first empty list only
empty_list_values_first(vals) ==
    LET empty == { name \in DOMAIN vals : vals[name].list /\ Len(vals[name].v) = 0 }
    IN  IF empty = {} THEN {} ELSE { CHOOSE name \in empty : TRUE }

empty_list_values(vals) == { name \in DOMAIN vals : vals[name].list /\ Len(vals[name].v) = 0 }

\* the lengths of the supplied lists
lists_sizes(vals) == { Len(vals[name].v) : name \in { n \in DOMAIN vals : vals[n].list } }

\* a check that lets lists of different lengths through
lists_size_match_lenient(vals) == TRUE

lists_size_match(vals) == Cardinality(lists_sizes(vals)) <= 1

batch_size(vals) ==
    IF lists_sizes(vals) = {} THEN 1
    ELSE CHOOSE n \in lists_sizes(vals) : \A m \in lists_sizes(vals) : m <= n

\* value if isinstance(value, list) else [value] * size
broadcast(item, n) == IF item.list THEN item.v ELSE Repeat(item.v[1], n)

\* the raw expressions of batch position i
index_map(lvalues, i) == [ name \in DOMAIN lvalues |-> lvalues[name][i] ]

\* an assembly that puts the newest value first
collect_front(final, evals) ==
    [ name \in DOMAIN final \cup (DOMAIN evals \cap Names) |->
        IF name \in DOMAIN evals
        THEN << evals[name] >> \o (IF name \in DOMAIN final THEN final[name] ELSE << >>)
        ELSE final[name] ]

\* step 4: the values of one evaluated set join final_values, the flags do not
collect(final, evals) ==
    [ name \in DOMAIN final \cup (DOMAIN evals \cap Names) |->
        IF name \in DOMAIN evals
        THEN Append(IF name \in DOMAIN final THEN final[name] ELSE << >>, evals[name])
        ELSE final[name] ]

Warning(kind, param, index, complex) ==
    [ kind |-> kind, param |-> param, idx |-> index, complex |-> complex ]

\* step 5: the warnings logged for the float values
float_warnings(final, sets) ==
    UNION { { IF ~Parameters[name].bounded
              THEN Warning("no_bounds", name, i, FALSE)
              ELSE Warning("out_of_range", name, i, is_complex(sets[i][name])) :
                i \in { j \in 1..Len(final[name]) :
                          /\ Parameters[name].type = "float"
                          /\ \/ ~Parameters[name].bounded
                             \/ final[name][j].n < Parameters[name].min
                             \/ final[name][j].n > Parameters[name].max } } :
            name \in DOMAIN final }

\* a validation that makes an out-of-range float an error
enum_errors_and_floats(final, sets) ==
    UNION { { LineError("value_error", name, i, { final[name][i] }) :
                i \in { j \in 1..Len(final[name]) :
                          \/ /\ Parameters[name].type = "enum"
                             /\ \/ final[name][j].t # "str"
                                \/ final[name][j].s \notin Options(name)
                          \/ /\ Parameters[name].type = "float"
                             /\ Parameters[name].bounded
                             /\ \/ final[name][j].n < Parameters[name].min
                                \/ final[name][j].n > Parameters[name].max } } :
            name \in DOMAIN final }

\* step 5: one error for every enum value outside the declared options
enum_errors(final, sets) ==
    UNION { { LineError("value_error", name, i, { final[name][i].s }) :
                i \in { j \in 1..Len(final[name]) :
                          /\ Parameters[name].type = "enum"
                          /\ \/ final[name][j].t # "str"
                             \/ final[name][j].s \notin Options(name) } } :
            name \in DOMAIN final }

\* the values the caller of from_dict can pass for parameter p
Items(p) ==
    { Scalar(BatchAlphabet(p)[i]) : i \in 1..Len(BatchAlphabet(p)) }
    \cup
    UNION { { List([ j \in 1..n |-> BatchAlphabet(p)[f[j]] ]) :
                f \in [1..n -> 1..Len(BatchAlphabet(p))] } : n \in 0..MaxBatch }

\* the arguments `values`: for every parameter of S, no entry or one of its items
RECURSIVE InputsOver(_)
InputsOver(S) ==
    IF S = {} THEN { Empty }
    ELSE LET p == CHOOSE q \in S : TRUE
         IN  InputsOver(S \ { p })
             \cup { (p :> item) @@ rest : item \in Items(p), rest \in InputsOver(S \ { p }) }

BatchInputs == InputsOver(Names)

InitBatch ==
    /\ call = "from_dict"
    /\ pc = "from_dict"
    /\ values \in BatchInputs
    /\ raws = Empty
    /\ expressions = Empty
    /\ cycle = Empty
    /\ order = Empty
    /\ done = 0
    /\ ev_values = Empty
    /\ steps = Empty
    /\ size = 0
    /\ list_values = Empty
    /\ exprs_sets = Empty
    /\ idx = 0
    /\ final_values = Empty
    /\ errors = {}
    /\ warnings = {}
    /\ exc = NoExc
    /\ result = Empty
    /\ arg_raw = Empty
    /\ arg_param = ""
    /\ parsed = Empty
    /\ reparsed = Empty
    /\ expr = Empty
    /\ expr_copy = Empty
    /\ valid = TRUE
    /\ previous_token = "None"
    /\ nb_paren = 0
    /\ scores = {}
    /\ filenorm = {}
    /\ fileweight = NoFile
    /\ u_sum = FALSE
    /\ member = Empty
    /\ converted = Empty
    /\ back = Empty
    /\ INPUT_PANELS = Empty
    /\ OUTPUT_PANELS = Empty
    /\ decorated = Empty

\* a from_dict that merges the catalog defaults into the mapping it was given
FromDictBeginInPlace ==
    /\ call = "from_dict"
    /\ pc = "from_dict"
    /\ values' = all_values(values)
    /\ IF empty_list_values(values) # {}
       THEN /\ pc' = "raised"
            /\ exc' = Raised("ValidationError", "",
                        { LineError("empty_list", name, 0, {}) : name \in empty_list_values(values) })
            /\ UNCHANGED << size, list_values >>
       ELSE IF ~lists_size_match(values)
       THEN /\ pc' = "raised"
            /\ exc' = Raised("ValidationError", "", { LineError("lists_size_match", "", 0, {}) })
            /\ UNCHANGED << size, list_values >>
       ELSE /\ size' = batch_size(values)
            /\ list_values' = [ name \in DOMAIN all_values(values) |->
                                  broadcast(all_values(values)[name], batch_size(values)) ]
            /\ pc' = "build"
            /\ exc' = exc
    /\ idx' = 0
    /\ UNCHANGED << call, exprs_sets, final_values, errors, warnings, result >>
    /\ UNCHANGED evalVars
    /\ UNCHANGED << parseVars, grammarVars, scoreVars, enumVars, panelVars >>

\* from_dict up to step 2: defaults, the two checks on the lists, the broadcast
FromDictBegin ==
    /\ call = "from_dict"
    /\ pc = "from_dict"
    /\ IF empty_list_values(values) # {}
       THEN /\ pc' = "raised"
            /\ exc' = Raised("ValidationError", "",
                        { LineError("empty_list", name, 0, {}) : name \in empty_list_values(values) })
            /\ UNCHANGED << size, list_values >>
       ELSE IF ~lists_size_match(values)
       THEN /\ pc' = "raised"
            /\ exc' = Raised("ValidationError", "", { LineError("lists_size_match", "", 0, {}) })
            /\ UNCHANGED << size, list_values >>
       ELSE /\ size' = batch_size(values)
            /\ list_values' = [ name \in DOMAIN all_values(values) |->
                                  broadcast(all_values(values)[name], batch_size(values)) ]
            /\ pc' = "build"
            /\ exc' = exc
    /\ idx' = 0
    /\ UNCHANGED << call, values, exprs_sets, final_values, errors, warnings, result >>
    /\ UNCHANGED evalVars
    /\ UNCHANGED << parseVars, grammarVars, scoreVars, enumVars, panelVars >>

\* step 2, one iteration: the expression set of position idx + 1 is built; the
\* ValidationError of build is not caught
BuildSet ==
    /\ call = "from_dict"
    /\ pc = "build"
    /\ idx < size
    /\ LET built == build(index_map(list_values, idx + 1))
       IN  IF built.ok
           THEN /\ exprs_sets' = Append(exprs_sets, built.expressions)
                /\ idx' = IF idx + 1 = size THEN 0 ELSE idx + 1
                /\ pc' = IF idx + 1 = size THEN "cycles" ELSE "build"
                /\ exc' = exc
           ELSE /\ pc' = "raised"
                /\ exc' = Raised("ValidationError", "",
                            { [ e EXCEPT !.idx = idx + 1 ] : e \in built.errs })
                /\ UNCHANGED << exprs_sets, idx >>
    /\ UNCHANGED << call, values, size, list_values, final_values, errors, warnings, result >>
    /\ UNCHANGED evalVars
    /\ UNCHANGED << parseVars, grammarVars, scoreVars, enumVars, panelVars >>

\* a cycle check whose error is swallowed
CheckCycleSwallowed ==
    /\ call = "from_dict"
    /\ pc = "cycles"
    /\ idx < size
    /\ idx' = IF idx + 1 = size THEN 0 ELSE idx + 1
    /\ pc' = IF idx + 1 = size THEN "evaluate_sets" ELSE "cycles"
    /\ UNCHANGED << call, values, size, list_values, exprs_sets, final_values, errors,
                    warnings, exc, result >>
    /\ UNCHANGED evalVars
    /\ UNCHANGED << parseVars, grammarVars, scoreVars, enumVars, panelVars >>

\* step 3, one iteration: the ValidationError of a cycle is raised inside the
\* loop, and the except clause catches NetworkXNoCycle only
CheckCycle ==
    /\ call = "from_dict"
    /\ pc = "cycles"
    /\ idx < size
    /\ \E found \in dependencies_cycle(exprs_sets[idx + 1]) :
          IF found # Empty
          THEN /\ pc' = "raised"
               /\ exc' = Raised("ValidationError", "",
                           { LineError("dependencies_cycle", "", idx + 1, Range(found)) })
               /\ idx' = idx
          ELSE /\ idx' = IF idx + 1 = size THEN 0 ELSE idx + 1
               /\ pc' = IF idx + 1 = size THEN "evaluate_sets" ELSE "cycles"
               /\ exc' = exc
    /\ UNCHANGED << call, values, size, list_values, exprs_sets, final_values, errors,
                    warnings, result >>
    /\ UNCHANGED evalVars
    /\ UNCHANGED << parseVars, grammarVars, scoreVars, enumVars, panelVars >>

\* step 4, one iteration: exprs_set.evaluate() and the assembly of its values
EvaluateSet ==
    /\ call = "from_dict"
    /\ pc = "evaluate_sets"
    /\ idx < size
    /\ IF Empty \notin dependencies_cycle(exprs_sets[idx + 1])
       THEN /\ pc' = "raised"
            /\ exc' = Raised("ValueError", "", {})
            /\ UNCHANGED << idx, final_values >>
       ELSE \E ord \in evaluate_order(exprs_sets[idx + 1]) :
              LET evals == evaluate_loop(exprs_sets[idx + 1], Empty, processing(ord))
              IN  IF evals.ok
                  THEN /\ final_values' = collect(final_values, evals.values)
                       /\ idx' = IF idx + 1 = size THEN 0 ELSE idx + 1
                       /\ pc' = IF idx + 1 = size THEN "validate" ELSE "evaluate_sets"
                       /\ exc' = exc
                  ELSE /\ pc' = "raised"
                       /\ exc' = Raised("KeyError", evals.key, {})
                       /\ UNCHANGED << idx, final_values >>
    /\ UNCHANGED << call, values, size, list_values, exprs_sets, errors, warnings, result >>
    /\ UNCHANGED evalVars
    /\ UNCHANGED << parseVars, grammarVars, scoreVars, enumVars, panelVars >>

\* step 5 and the return
Validate ==
    /\ call = "from_dict"
    /\ pc = "validate"
    /\ warnings' = float_warnings(final_values, exprs_sets)
    /\ errors' = enum_errors(final_values, exprs_sets)
    /\ IF enum_errors(final_values, exprs_sets) # {}
       THEN /\ pc' = "raised"
            /\ exc' = Raised("ValidationError", "", enum_errors(final_values, exprs_sets))
            /\ result' = result
       ELSE /\ pc' = "returned"
            /\ result' = final_values
            /\ exc' = exc
    /\ UNCHANGED << call, values, size, list_values, exprs_sets, idx, final_values >>
    /\ UNCHANGED evalVars
    /\ UNCHANGED << parseVars, grammarVars, scoreVars, enumVars, panelVars >>

\* the caller calls from_dict once more with the mapping of the ended call:
\* the locals of a call are created by the call, and from_dict keeps nothing
\* in the class or in the module
CallAgain ==
    /\ call = "from_dict"
    /\ pc \in { "returned", "raised" }
    /\ pc' = "from_dict"
    /\ size' = 0
    /\ list_values' = Empty
    /\ exprs_sets' = Empty
    /\ idx' = 0
    /\ final_values' = Empty
    /\ errors' = {}
    /\ warnings' = {}
    /\ exc' = NoExc
    /\ result' = Empty
    /\ UNCHANGED << call, values >>
    /\ UNCHANGED evalVars
    /\ UNCHANGED << parseVars, grammarVars, scoreVars, enumVars, panelVars >>

NextBatch ==
    FromDictBegin \/ BuildSet \/ CheckCycle \/ EvaluateSet \/ Validate \/ CallAgain

SpecBatch == InitBatch /\ [][NextBatch]_vars

(***************************************************************************)
(* Properties of build / dependencies_cycle / evaluate                     *)
(***************************************************************************)
InLoop == call = "evaluate" /\ pc = "loop"

\* the name the loop of evaluate processes next
NextName == processing(order)[done + 1]

\* the catalog parameters the expression of name depends on
DependsOn(exprs, name) ==
    { find_corresponding_parameter(dep).name : dep \in dependencies(exprs[name]) }

\* the parameters without expression that an expression of the map depends on
OmittedDependencies(exprs) ==
    UNION { DependsOn(exprs, name) : name \in DOMAIN exprs } \ DOMAIN exprs

IsStr(raw, text) == raw.k = "str" /\ raw.s = text

\* C1: in evaluate on an acyclic set in which every catalog parameter has an
\* expression, a parameter's expression is evaluated only when every token it
\* depends on has a value in the running value set and the catalog parameter
\* owning the token (architecture for architecture_Pascal) has been evaluated.
C1_DependenciesFirst ==
    (InLoop /\ done < Len(order) /\ Names \subseteq DOMAIN expressions)
        => \A dep \in dependencies(expressions[NextName]) :
                /\ dep \in DOMAIN ev_values
                /\ find_corresponding_parameter(dep).name \in Range(steps)

C1_Witness ==
    /\ InLoop /\ done < Len(order) /\ Names \subseteq DOMAIN expressions
    /\ NextName = "cuda_core"
    /\ PascalFlag \in dependencies(expressions["cuda_core"])
    /\ "architecture" \in Range(steps)
    /\ expressions["lifespan"].kind = "ParamFloatExpr"

C3_FlagsInjected ==
    (call = "evaluate" /\ pc \in { "loop", "returned" }) =>
        /\ \A E \in Range(steps) : Parameters[E].type = "enum" =>
              /\ \A o \in Options(E) :
                    /\ Dummy(E, o) \in DOMAIN ev_values
                    /\ ev_values[Dummy(E, o)] =
                          (IF ev_values[E].s = o THEN VFloat(1) ELSE VFloat(0))
              /\ ev_values[E].s \in Options(E) =>
                    Cardinality({ o \in Options(E) : ev_values[Dummy(E, o)] = VFloat(1) }) = 1
        /\ (pc = "loop" /\ done < Len(order) /\ NextName \in DOMAIN expressions) =>
              \A E \in Names : \A o \in Options(E) :
                    Dummy(E, o) \in dependencies(expressions[NextName])
                        => Dummy(E, o) \in DOMAIN ev_values

C3_Witness ==
    /\ InLoop /\ done < Len(order)
    /\ NextName = "cuda_core"
    /\ "cuda_core" \in DOMAIN expressions
    /\ "architecture" \in DOMAIN ev_values
    /\ PascalFlag \in dependencies(expressions["cuda_core"])
    /\ ev_values["architecture"] = VStr("Pascal")
    /\ ev_values[PascalFlag] = VFloat(1)
    /\ ev_values["architecture_Maxwell"] = VFloat(0)

\* C4: with cuda_core = Piecewise((1000, architecture_Pascal), (100, True)) and
\* architecture resolved to v, evaluate returns cuda_core = 1000 when
\* v = Pascal and cuda_core = 100 otherwise (v = Maxwell).
C4_PiecewiseOnFlag ==
    (call = "evaluate" /\ pc = "returned" /\ "cuda_core" \in DOMAIN raws
     /\ IsStr(raws["cuda_core"], CudaPiecewise.s)) =>
        /\ result["architecture"] = VStr("Pascal") => result["cuda_core"] = VFloat(1000)
        /\ result["architecture"] # VStr("Pascal") => result["cuda_core"] = VFloat(100)
        /\ result["architecture"] = VStr("Maxwell") => result["cuda_core"] = VFloat(100)

C4_Witness ==
    /\ call = "evaluate" /\ pc = "returned" /\ "cuda_core" \in DOMAIN raws
    /\ IsStr(raws["cuda_core"], CudaPiecewise.s)
    /\ result["architecture"] = VStr("Maxwell")
    /\ result["cuda_core"] = VFloat(100)

\* C7 as stated: evaluate on a set whose map omits a catalog parameter that an
\* expression of the map depends on does not fail; it returns, with the omitted
\* parameter at its catalog default.
C7_OmittedUsesDefault ==
    (call = "evaluate" /\ pc \in { "raised", "returned" } /\ expressions # Empty
     /\ Empty \in dependencies_cycle(expressions)
     /\ OmittedDependencies(expressions) # {}) =>
        /\ pc = "returned"
        /\ \A p \in OmittedDependencies(expressions) :
              p \in DOMAIN result /\ result[p] = parse(Parameters[p].default, p).expr.value

\* C7 amended: evaluate evaluates the parameters that have an expression in the
\* map and no other; it returns only when no expression depends on an omitted
\* parameter, and otherwise raises KeyError for an omitted parameter, before
\* any expression depending on it is evaluated.
C7_OmittedIsKeyError ==
    /\ (call = "evaluate" /\ pc = "returned") =>
          /\ OmittedDependencies(expressions) = {}
          /\ DOMAIN result \cap Names = DOMAIN expressions
    /\ (call = "evaluate" /\ pc = "loop") => Range(steps) \subseteq DOMAIN expressions
    /\ (call = "evaluate" /\ pc = "raised" /\ exc.type = "KeyError" /\ exc.key \in Names) =>
          /\ exc.key \in OmittedDependencies(expressions)
          /\ \A name \in Range(steps) : exc.key \notin DependsOn(expressions, name)
    /\ (call = "evaluate" /\ pc = "loop" /\ done = Len(order)) =>
          OmittedDependencies(expressions) = {}

C7_Witness ==
    /\ call = "evaluate" /\ pc = "raised" /\ exc.type = "KeyError"
    /\ exc.key = "lifespan"
    /\ "cuda_core" \in DOMAIN expressions
    /\ "lifespan" \in dependencies(expressions["cuda_core"])
    /\ "lifespan" \notin DOMAIN expressions

(***************************************************************************)
(* Properties of from_dict                                                 *)
(***************************************************************************)
Returned == call = "from_dict" /\ pc = "returned"

RaisedWith(type) ==
    /\ call = "from_dict" /\ pc = "raised" /\ exc.type = "ValidationError"
    /\ \E e \in exc.errors : e.type = type

\* the lengths of the sequences the caller supplied
SuppliedLengths == { Len(values[p].v) : p \in { q \in DOMAIN values : values[q].list } }

\* the raw expression of parameter p at batch position i, read off the input
RawAt(p, i) ==
    IF p \notin DOMAIN values THEN Parameters[p].default
    ELSE IF values[p].list THEN values[p].v[i] ELSE values[p].v[1]

\* the value of a constant raw expression
ConstValue(raw) == IF raw.k = "num" THEN VFloat(raw.n) ELSE VStr(raw.s)

IsConst(p, raw) == raw.k = "num" \/ (raw.k = "str" /\ Parameters[p].type = "enum")

\* the values parameter p can take in the expression set made of the raw
\* expressions of batch position i
ValuesAt(p, i) ==
    LET set == build([ q \in Names \cup DOMAIN values |-> RawAt(q, i) ]).expressions
    IN  { evaluate_loop(set, Empty, processing(ord)).values[p] : ord \in evaluate_order(set) }

\* C6: the mapping from_dict returns has exactly the catalog parameter names
\* as keys (no flag), and the i-th element of the list of a parameter is the
\* value of the parameter in the expression set built from the i-th element of
\* every input sequence.
C6_ResultPerIndex ==
    Returned =>
        /\ DOMAIN result = Names
        /\ \A p \in Names : \A i \in 1..Len(result[p]) : result[p][i] \in ValuesAt(p, i)

C6_Witness ==
    /\ Returned
    /\ size = 2
    /\ "cuda_core" \in DOMAIN values /\ values["cuda_core"].list
    /\ result["cuda_core"][1] = VFloat(1000)
    /\ result["cuda_core"][2] = VFloat(4)
    /\ result["architecture"] = << VStr("Pascal"), VStr("Pascal") >>

\* every set was built and none has a cycle: the evaluation was started
Evaluating ==
    /\ call = "from_dict" /\ size > 0 /\ Len(exprs_sets) = size
    /\ \A i \in 1..size : Empty \in dependencies_cycle(exprs_sets[i])

\* the values the evaluation of the set of position i produced, up to where it stopped
ReachedValues(i) ==
    evaluate_loop(exprs_sets[i], Empty,
                  processing(CHOOSE ord \in evaluate_order(exprs_sets[i]) : TRUE)).values

\* the (enum parameter, position) pairs whose value is no declared option
InvalidEnums ==
    { pi \in { q \in Names : Parameters[q].type = "enum" } \X (1..size) :
        /\ pi[1] \in DOMAIN ReachedValues(pi[2])
        /\ \/ ReachedValues(pi[2])[pi[1]].t # "str"
           \/ ReachedValues(pi[2])[pi[1]].s \notin Options(pi[1]) }

\* C8: when the evaluation gives an enum parameter, at any index, a value
\* outside its declared options, from_dict ends with one ValidationError that
\* lists every such (parameter, index) and returns nothing, whether or not
\* other expressions depend on that parameter.
C8_InvalidEnumsReported ==
    (Evaluating /\ pc \in { "raised", "returned" } /\ InvalidEnums # {}) =>
        /\ pc = "raised"
        /\ exc.type = "ValidationError"
        /\ { << e.param, e.idx >> : e \in exc.errors } = InvalidEnums
        /\ result = Empty

\* the positions whose expression set has a dependency cycle
CyclicIndices == { i \in 1..Len(exprs_sets) : Empty \notin dependencies_cycle(exprs_sets[i]) }

Min(S) == CHOOSE n \in S : \A m \in S : n <= m

AllBuilt == call = "from_dict" /\ size > 0 /\ Len(exprs_sets) = size

\* C9 as stated: when sets have a cycle, the error from_dict raises records a
\* dependencies_cycle error for each index whose set has a cycle (a cycle at an
\* earlier index does not stop the later ones being checked), and no set is
\* evaluated.
C9_EveryCyclicIndexRecorded ==
    /\ (AllBuilt /\ pc = "raised" /\ CyclicIndices # {}) =>
          /\ exc.type = "ValidationError"
          /\ { e.idx : e \in exc.errors } = CyclicIndices
    /\ (AllBuilt /\ CyclicIndices # {}) => pc \notin { "evaluate_sets", "validate", "returned" }

\* C9 amended: the sets are checked in index order and the first one that has
\* a cycle ends from_dict with a ValidationError holding one dependencies_cycle
\* error that names the parameters of a cycle of that set; the sets after it are
\* not checked, and no set is evaluated when any set has a cycle.
C9_FirstCycleRaised ==
    /\ RaisedWith("dependencies_cycle") =>
          /\ AllBuilt
          /\ Cardinality(exc.errors) = 1
          /\ \A e \in exc.errors :
                /\ e.idx = Min(CyclicIndices)
                /\ e.idx = idx + 1
                /\ \E c \in Cycles(dependencies_graph(exprs_sets[e.idx])) : e.detail = Range(c)
          /\ final_values = Empty
    /\ (AllBuilt /\ CyclicIndices # {}) =>
          /\ pc \notin { "evaluate_sets", "validate", "returned" }
          /\ final_values = Empty
    /\ (AllBuilt /\ CyclicIndices # {} /\ pc = "cycles") => idx < Min(CyclicIndices)
    /\ (AllBuilt /\ CyclicIndices # {} /\ pc = "raised") => RaisedWith("dependencies_cycle")

C9_Witness ==
    /\ RaisedWith("dependencies_cycle")
    /\ CyclicIndices = { 1, 2 }
    /\ \A e \in exc.errors : e.idx = 1 /\ e.detail = { "cuda_core", "lifespan" }

\* the (parameter, position) pairs whose raw expression does not parse
ParseFailures ==
    { pi \in (Names \cup DOMAIN values) \X (1..size) : ~parse(RawAt(pi[1], pi[2]), pi[1]).ok }

\* C10 as stated: from_dict builds one expression set per batch index, and
\* when entries fail to parse the error it raises holds the parse failures of
\* every index.
C10_EveryIndexParseErrors ==
    /\ RaisedWith("invalid_expression") =>
          { << e.param, e.idx >> : e \in exc.errors } = ParseFailures
    /\ (call = "from_dict" /\ pc \in { "cycles", "evaluate_sets", "validate", "returned" }) =>
          Len(exprs_sets) = size

\* C10 amended: from_dict builds the expression sets in index order, one per
\* batch index; the first index with entries that fail to parse ends it with
\* the combined error of build for that index, which holds every failing
\* parameter of that index and nothing of the later indices.
C10_FirstIndexParseErrors ==
    /\ RaisedWith("invalid_expression") =>
          LET first == Min({ pi[2] : pi \in ParseFailures })
          IN  /\ { << e.param, e.idx >> : e \in exc.errors }
                    = { pi \in ParseFailures : pi[2] = first }
              /\ \A e \in exc.errors :
                    e.type = "invalid_expression" /\ e.detail = parse(RawAt(e.param, e.idx), e.param).errs
              /\ Len(exprs_sets) = first - 1
    /\ (call = "from_dict" /\ pc \in { "cycles", "evaluate_sets", "validate", "returned" }) =>
          /\ Len(exprs_sets) = size
          /\ ParseFailures = {}
    /\ (call = "from_dict" /\ pc = "raised" /\ size > 0 /\ ParseFailures # {}) =>
          RaisedWith("invalid_expression")

C10_Witness ==
    /\ RaisedWith("invalid_expression")
    /\ { << e.param, e.idx >> : e \in exc.errors } = { << "cuda_core", 1 >>, << "lifespan", 1 >> }
    /\ << "lifespan", 2 >> \in ParseFailures

\* C5, the cases it covers: from_dict fails only on an empty list, mismatched
\* lists, a parse failure, a cycle or an enum value outside the options.
C5_FailsOnlyOnError ==
    (call = "from_dict" /\ pc = "raised") =>
        \/ empty_list_values(values) # {}
        \/ Cardinality(SuppliedLengths) > 1
        \/ size > 0 /\ ParseFailures # {}
        \/ AllBuilt /\ CyclicIndices # {}
        \/ Evaluating /\ InvalidEnums # {}

\* C5: when from_dict returns, every catalog parameter has a value list whose
\* length is the common length of the supplied sequences (1 when none is
\* supplied); a scalar input is repeated that many times, and a parameter
\* absent from the input has its catalog default at every index; from_dict
\* returns whenever the input has no empty list, mismatched lists, parse
\* failure, cycle or enum value outside the options.
C5_BatchSizeAndBroadcast ==
    /\ C5_FailsOnlyOnError
    /\ Returned =>
        /\ Cardinality(SuppliedLengths) <= 1
        /\ \A p \in Names :
              /\ p \in DOMAIN result
              /\ \A n \in SuppliedLengths : Len(result[p]) = n
              /\ SuppliedLengths = {} => Len(result[p]) = 1
              /\ (p \in DOMAIN values /\ ~values[p].list) =>
                    /\ list_values[p] = Repeat(values[p].v[1], Len(result[p]))
                    /\ IsConst(p, values[p].v[1]) =>
                          result[p] = Repeat(ConstValue(values[p].v[1]), Len(result[p]))
              /\ p \notin DOMAIN values =>
                    result[p] = Repeat(ConstValue(Parameters[p].default), Len(result[p]))

C5_Witness ==
    /\ Returned
    /\ SuppliedLengths = { 2 }
    /\ "lifespan" \in DOMAIN values /\ ~values["lifespan"].list
    /\ result["lifespan"] = << VFloat(3), VFloat(3) >>
    /\ "architecture" \notin DOMAIN values
    /\ result["architecture"] = << VStr("Maxwell"), VStr("Maxwell") >>

(***************************************************************************)
(* C11                                                                     *)
(***************************************************************************)
\* the entries of the argument of build that fail to parse
FailingEntries == { n \in DOMAIN raws : ~parse(raws[n], n).ok }

Mismatched == Cardinality(SuppliedLengths) > 1

\* C16 as stated: whenever two supplied sequences differ in length, from_dict
\* fails with a size-mismatch error and returns nothing.
C16_MismatchIsSizeError ==
    (call = "from_dict" /\ pc # "from_dict" /\ Mismatched) =>
        /\ RaisedWith("lists_size_match")
        /\ result = Empty

\* C16, amended: whenever two supplied sequences differ in length, from_dict
\* fails before anything is broadcast, built or evaluated and returns nothing;
\* the error is the size-mismatch error alone when no supplied sequence is
\* empty, and the empty-list error alone when one is.
C16_MismatchFails ==
    (call = "from_dict" /\ pc # "from_dict" /\ Mismatched) =>
        /\ pc = "raised"
        /\ exc.type = "ValidationError"
        /\ result = Empty
        /\ list_values = Empty /\ exprs_sets = Empty /\ final_values = Empty
        /\ IF empty_list_values(values) = {}
           THEN exc.errors = { LineError("lists_size_match", "", 0, {}) }
           ELSE \A e \in exc.errors : e.type = "empty_list"

\* from_dict raised the size-mismatch error for sequences of lengths 1 and 2
C16_Witness ==
    /\ RaisedWith("lists_size_match")
    /\ SuppliedLengths = { 1, 2 }

\* C17: from_dict fails when a supplied sequence is empty, and the error it
\* raises has one empty-list entry for every parameter whose sequence is
\* empty, and no other entry.
C17_EveryEmptyListNamed ==
    (call = "from_dict" /\ pc # "from_dict"
        /\ \E p \in DOMAIN values : values[p].list /\ values[p].v = << >>) =>
        /\ pc = "raised"
        /\ exc.type = "ValidationError"
        /\ result = Empty
        /\ \A e \in exc.errors : e.type = "empty_list"
        /\ { e.param : e \in exc.errors }
             = { p \in DOMAIN values : values[p].list /\ values[p].v = << >> }

\* from_dict raised for two empty sequences next to a non-empty one
C17_Witness ==
    /\ call = "from_dict" /\ pc = "raised"
    /\ { e.param : e \in exc.errors } = { "architecture", "lifespan" }
    /\ \A e \in exc.errors : e.type = "empty_list"
    /\ "cuda_core" \in DOMAIN values /\ values["cuda_core"].list
    /\ Len(values["cuda_core"].v) = 2

\* the (float parameter, position) pairs whose final value is outside the
\* bounds of the parameter
OutOfRange ==
    { pi \in { q \in Names : Parameters[q].type = "float" /\ Parameters[q].bounded }
              \X (1..size) :
        /\ pi[1] \in DOMAIN final_values
        /\ pi[2] <= Len(final_values[pi[1]])
        /\ \/ final_values[pi[1]][pi[2]].n < Parameters[pi[1]].min
           \/ final_values[pi[1]][pi[2]].n > Parameters[pi[1]].max }

\* the (float parameter, position) pairs of the parameters without bounds
Unbounded ==
    { q \in Names : Parameters[q].type = "float" /\ ~Parameters[q].bounded } \X (1..size)

\* C18: a float value outside [min, max], or a float parameter without
\* bounds, is logged as a warning and nothing more: when every set evaluated
\* and every enum value is a declared option, from_dict returns the complete
\* result, the out-of-range value in it as evaluated.
C18_WarningsNeverAbort ==
    (Evaluating /\ pc \in { "raised", "returned" } /\ InvalidEnums = {}) =>
        /\ pc = "returned"
        /\ exc = NoExc
        /\ errors = {}
        /\ result = final_values
        /\ DOMAIN result = Names
        /\ \A p \in Names : Len(result[p]) = size
        /\ \A p \in Names : \A i \in 1..size : result[p][i] \in ValuesAt(p, i)
        /\ { << w.param, w.idx >> : w \in { x \in warnings : x.kind = "out_of_range" } }
             = OutOfRange
        /\ { << w.param, w.idx >> : w \in { x \in warnings : x.kind = "no_bounds" } }
             = Unbounded

\* from_dict returned a value above the maximum of cuda_core, and warned
C18_Witness ==
    /\ Returned
    /\ size = 2
    /\ << "cuda_core", 2 >> \in OutOfRange
    /\ result["cuda_core"][2] = VFloat(1000)
    /\ << "cuda_core", 1 >> \notin OutOfRange
    /\ \E w \in warnings : w.kind = "out_of_range" /\ w.param = "cuda_core" /\ w.idx = 2
    /\ \E w \in warnings : w.kind = "no_bounds" /\ w.param = "lifespan"

(***************************************************************************)
(* C19                                                                     *)
(***************************************************************************)
\* the parameters of the set that are no node of its dependency graph: they
\* have no dependency and no expression depends on them
Isolated == DOMAIN expressions \ Nodes(dependencies_graph(expressions))

\* C19: when evaluate returns, every parameter of the set that has no
\* dependency and that no expression depends on was evaluated exactly once,
\* and the result holds the value of its expression.
C19_IsolatedEvaluatedOnce ==
    (call = "evaluate" /\ pc = "returned") =>
        \A name \in Isolated :
            /\ Cardinality({ i \in 1..Len(steps) : steps[i] = name }) = 1
            /\ name \in DOMAIN result
            /\ result[name] = evaluate_expr(expressions[name], Empty)

\* evaluate returned for a set in which lifespan is isolated while cuda_core
\* depends on architecture
C19_Witness ==
    /\ call = "evaluate" /\ pc = "returned"
    /\ Isolated = { "lifespan" }
    /\ << "cuda_core", "architecture" >> \in dependencies_graph(expressions)
    /\ result["lifespan"] = VFloat(3)

(***************************************************************************)
(* A caller of ParamExpr.parse: one raw expression is parsed for one       *)
(* parameter, then the raw_version of the parsed expression is parsed      *)
(* again for the same parameter.                                           *)
(***************************************************************************)
\* a branch left without sub expression (None)
RNone == [ k |-> "none" ]

\* the context of the error of validate_options; the sorted tuples of the
\* code are modelled by sets
OptionsError(type, missing, extra, invalid) ==
    [ type |-> type, missing_options |-> missing, extra_options |-> extra,
      invalid_options |-> invalid ]

NoOptionsError == OptionsError("none", {}, {}, {})

\* a check of the options that reports the missing and the extra options at once
options_error_both(param, options) ==
    IF Options(param) # DOMAIN options
    THEN OptionsError("enum_expr_options", Options(param) \ DOMAIN options,
                      DOMAIN options \ Options(param), {})
    ELSE IF \E o \in DOMAIN options : options[o].k = "none"
    THEN OptionsError("enum_expr_empty_options", {}, {},
                      { o \in DOMAIN options : options[o].k = "none" })
    ELSE NoOptionsError

\* ParamEnumExpr.validate_options: the PydanticCustomError it raises
options_error(param, options) ==
    IF Options(param) \ DOMAIN options # {}
    THEN OptionsError("enum_expr_options", Options(param) \ DOMAIN options, {}, {})
    ELSE IF DOMAIN options \ Options(param) # {}
    THEN OptionsError("enum_expr_options", {}, DOMAIN options \ Options(param), {})
    ELSE IF \E o \in DOMAIN options : options[o].k = "none"
    THEN OptionsError("enum_expr_empty_options", {}, {},
                      { o \in DOMAIN options : options[o].k = "none" })
    ELSE NoOptionsError

\* the context carried by the error of the parse of raw_expr: that of
\* validate_options at the top of a mapping, none for the other errors
error_context(raw_expr) ==
    IF raw_expr.k = "dict" /\ validate_param(raw_expr) = {}
    THEN LET dependency == CHOOSE x \in DOMAIN raw_expr.d : TRUE
         IN  options_error(dependency, raw_expr.d[dependency])
    ELSE NoOptionsError

\* a raw_version that drops the selector level of a mapping
RECURSIVE raw_version_flat(_)
raw_version_flat(e) ==
    CASE e.kind = "ParamFloatConst" -> RNum(e.value.n)
      [] e.kind = "ParamEnumConst" -> RLit(e.value.s)
      [] e.kind = "ParamFloatExpr" -> e.expr
      [] e.kind = "ParamEnumExpr" ->
            RDict([ o \in DOMAIN e.options |-> raw_version_flat(e.options[o]) ])

\* ParamExpr.raw_version of the four kinds
RECURSIVE raw_version(_)
raw_version(e) ==
    CASE e.kind = "ParamFloatConst" -> RNum(e.value.n)
      [] e.kind = "ParamEnumConst" -> RLit(e.value.s)
      [] e.kind = "ParamFloatExpr" -> e.expr
      [] e.kind = "ParamEnumExpr" ->
            RDict((e.param :> [ o \in DOMAIN e.options |-> raw_version(e.options[o]) ]))

\* the raw expressions that are no mapping
Leaves ==
    { RNum(7),
      RLit("Pascal"),
      CudaPiecewise,
      RStr("lifespan + 1", TRUE, Add(Sym("lifespan"), Num(1))),
      RStr("foo + 1", TRUE, Add(Sym("foo"), Num(1))),
      RStr("architecture + 1", TRUE, Add(Sym("architecture"), Num(1))),
      RStr("foo + architecture", TRUE, Add(Sym("foo"), Sym("architecture"))),
      RStr("2*lifespan +*", FALSE, Num(0)) }

\* the mappings used as branches of a mapping
InnerDicts ==
    { RDict([ architecture |-> [ Pascal |-> RNum(1), Maxwell |-> CudaPiecewise ] ]),
      RDict([ architecture |-> [ Pascal |-> RNum(1) ] ]) }

\* the keys a caller gives the branches: the declared options and one more
BranchKeys == Options("architecture") \cup { "Volta" }

\* the branches of a mapping: some keys, each with a leaf, a mapping or None
Branches ==
    UNION { [ K -> Leaves \cup InnerDicts \cup { RNone } ] : K \in SUBSET BranchKeys }

\* the selector keys of a mapping: an enum parameter, a float parameter, an
\* unknown name, two keys, no key
SelectorKeys ==
    { { "architecture" }, { "cuda_core" }, { "foo" }, { "architecture", "cuda_core" }, {} }

Dicts == { RDict([ key \in K |-> b ]) : K \in SelectorKeys, b \in Branches }

InitParse ==
    /\ call = "parse"
    /\ pc = "parse"
    /\ arg_raw \in Leaves \cup Dicts
    /\ arg_param \in Names
    /\ parsed = Empty
    /\ reparsed = Empty
    /\ raws = Empty
    /\ expressions = Empty
    /\ cycle = Empty
    /\ order = Empty
    /\ done = 0
    /\ ev_values = Empty
    /\ steps = Empty
    /\ values = Empty
    /\ size = 0
    /\ list_values = Empty
    /\ exprs_sets = Empty
    /\ idx = 0
    /\ final_values = Empty
    /\ errors = {}
    /\ warnings = {}
    /\ exc = NoExc
    /\ result = Empty
    /\ expr = Empty
    /\ expr_copy = Empty
    /\ valid = TRUE
    /\ previous_token = "None"
    /\ nb_paren = 0
    /\ scores = {}
    /\ filenorm = {}
    /\ fileweight = NoFile
    /\ u_sum = FALSE
    /\ member = Empty
    /\ converted = Empty
    /\ back = Empty
    /\ INPUT_PANELS = Empty
    /\ OUTPUT_PANELS = Empty
    /\ decorated = Empty

\* ParamExpr.parse(arg_raw, arg_param): the expression, or a ValidationError
\* with the error of the first rule that fails (any of them when the order in
\* which sympy lists the free symbols decides)
Parse ==
    /\ call = "parse"
    /\ pc = "parse"
    /\ parsed' = parse(arg_raw, arg_param)
    /\ IF parse(arg_raw, arg_param).ok
       THEN /\ pc' = "parsed"
            /\ result' = parse(arg_raw, arg_param).expr
            /\ exc' = exc
       ELSE /\ pc' = "raised"
            /\ result' = result
            /\ \E type \in parse(arg_raw, arg_param).errs :
                  exc' = Raised("ValidationError", "",
                                { LineError(type, arg_param, 0, error_context(arg_raw)) })
    /\ UNCHANGED << call, arg_raw, arg_param, reparsed >>
    /\ UNCHANGED << evalVars, batchVars, grammarVars, scoreVars, enumVars, panelVars >>

\* ParamExpr.parse(result.raw_version, arg_param)
ParseRawVersion ==
    /\ call = "parse"
    /\ pc = "parsed"
    /\ reparsed' = parse(raw_version(parsed.expr), arg_param)
    /\ pc' = "reparsed"
    /\ UNCHANGED << call, arg_raw, arg_param, parsed, exc, result >>
    /\ UNCHANGED << evalVars, batchVars, grammarVars, scoreVars, enumVars, panelVars >>

NextParse == Parse \/ ParseRawVersion

SpecParse == InitParse /\ [][NextParse]_vars

(***************************************************************************)
(* Properties of ParamExpr.parse                                           *)
(***************************************************************************)
\* parse was called on a mapping and has ended
ParsedDict == call = "parse" /\ pc # "parse" /\ arg_raw.k = "dict"

\* the mapping has one key and the key is an enum parameter of the catalog
OneEnumSelector ==
    /\ Cardinality(DOMAIN arg_raw.d) = 1
    /\ \A key \in DOMAIN arg_raw.d : key \in Names /\ Parameters[key].type = "enum"

Selector == CHOOSE key \in DOMAIN arg_raw.d : TRUE

MissingOptions == Options(Selector) \ DOMAIN arg_raw.d[Selector]

ExtraOptions == DOMAIN arg_raw.d[Selector] \ Options(Selector)

NoneOptions == { o \in DOMAIN arg_raw.d[Selector] : arg_raw.d[Selector][o].k = "none" }

\* parse raised a ValidationError with the single line error of this type
RaisedOnly(type) ==
    /\ pc = "raised"
    /\ exc.type = "ValidationError"
    /\ Cardinality(exc.errors) = 1
    /\ \A e \in exc.errors : e.type = type

\* C12 as stated: when the branch keys of a mapping both miss declared
\* options and hold undeclared ones, the error reports the list of the missing
\* options and the list of the extra options.
C12_MissingAndExtraReported ==
    (ParsedDict /\ OneEnumSelector /\ MissingOptions # {} /\ ExtraOptions # {}) =>
        /\ pc = "raised"
        /\ \A e \in exc.errors :
              /\ e.detail.missing_options = MissingOptions
              /\ e.detail.extra_options = ExtraOptions

\* C12, amended: the construction of an EnumBranch stops at the first rule
\* that is violated, in the order: one selector key, the selector exists, the
\* selector is an enum parameter, no declared option is missing, no undeclared
\* option is present, no branch is None, every branch parses; the error has
\* that one entry.  When the keys both miss declared options and hold
\* undeclared ones, the error is the missing-options one: it lists the
\* missing options and its list of extra options is empty.
C12_FirstViolatedRuleOnly ==
    ParsedDict =>
        IF Cardinality(DOMAIN arg_raw.d) # 1 THEN RaisedOnly("too_much_dependencies")
        ELSE IF Selector \notin Names THEN RaisedOnly("no_such_param")
        ELSE IF Parameters[Selector].type # "enum" THEN RaisedOnly("dependencies_type")
        ELSE IF MissingOptions # {}
        THEN /\ RaisedOnly("enum_expr_options")
             /\ \A e \in exc.errors :
                   e.detail = OptionsError("enum_expr_options", MissingOptions, {}, {})
        ELSE IF ExtraOptions # {}
        THEN /\ RaisedOnly("enum_expr_options")
             /\ \A e \in exc.errors :
                   e.detail = OptionsError("enum_expr_options", {}, ExtraOptions, {})
        ELSE IF NoneOptions # {}
        THEN /\ RaisedOnly("enum_expr_empty_options")
             /\ \A e \in exc.errors :
                   e.detail = OptionsError("enum_expr_empty_options", {}, {}, NoneOptions)
        ELSE LET failing == { o \in Options(Selector) :
                                ~parse(arg_raw.d[Selector][o], arg_param).ok }
             IN  IF failing = {} THEN pc \in { "parsed", "reparsed" }
                 ELSE /\ pc = "raised"
                      /\ Cardinality(exc.errors) = 1
                      /\ \A e \in exc.errors : \E o \in failing :
                            e.type \in parse(arg_raw.d[Selector][o], arg_param).errs

\* parse raised for a mapping that misses Maxwell, holds the undeclared Volta
\* and has a None branch
C12_Witness ==
    /\ ParsedDict /\ OneEnumSelector
    /\ pc = "raised"
    /\ MissingOptions = { "Maxwell" }
    /\ ExtraOptions = { "Volta" }
    /\ NoneOptions = { "Pascal" }

\* every EnumBranch of the expression has an enum parameter of the catalog as
\* selector and one branch for each of its options, no other
RECURSIVE WellFormed(_)
WellFormed(e) ==
    IF e.kind # "ParamEnumExpr" THEN TRUE
    ELSE /\ e.param \in Names
         /\ Parameters[e.param].type = "enum"
         /\ DOMAIN e.options = Options(e.param)
         /\ \A o \in DOMAIN e.options : WellFormed(e.options[o])

\* C13: every successfully parsed EnumBranch has exactly one selector, an
\* existing enum parameter of the catalog, and the keys of its branches are
\* the options of the selector; the parse of a mapping fails with the
\* missing-options error when a declared option has no branch, and with the
\* extra-options error when all are there and an undeclared one is added.
C13_EnumBranchWellFormed ==
    (call = "parse" /\ pc # "parse") =>
        /\ parsed.ok =>
              /\ WellFormed(parsed.expr)
              /\ arg_raw.k = "dict" =>
                    /\ OneEnumSelector
                    /\ parsed.expr.kind = "ParamEnumExpr"
                    /\ parsed.expr.param = Selector
                    /\ DOMAIN parsed.expr.options = DOMAIN arg_raw.d[Selector]
        /\ (arg_raw.k = "dict" /\ OneEnumSelector /\ MissingOptions # {}) =>
              /\ ~parsed.ok
              /\ RaisedOnly("enum_expr_options")
              /\ \A e \in exc.errors : e.detail.missing_options = MissingOptions
        /\ (arg_raw.k = "dict" /\ OneEnumSelector
                /\ MissingOptions = {} /\ ExtraOptions # {}) =>
              /\ ~parsed.ok
              /\ RaisedOnly("enum_expr_options")
              /\ \A e \in exc.errors : e.detail.extra_options = ExtraOptions

\* an EnumBranch with an EnumBranch as branch was parsed
C13_Witness ==
    /\ call = "parse" /\ pc = "parsed"
    /\ parsed.expr.kind = "ParamEnumExpr"
    /\ parsed.expr.param = "architecture"
    /\ parsed.expr.options["Pascal"].kind = "ParamEnumExpr"
    /\ parsed.expr.options["Maxwell"].kind = "ParamFloatExpr"

\* the Float formulas of an expression, at any depth
RECURSIVE FloatFormulas(_)
FloatFormulas(e) ==
    CASE e.kind = "ParamFloatExpr" -> { e }
      [] e.kind = "ParamEnumExpr" ->
            UNION { FloatFormulas(e.options[o]) : o \in DOMAIN e.options }
      [] OTHER -> {}

FloatNames == { p \in Names : Parameters[p].type = "float" }

EnumNames == { p \in Names : Parameters[p].type = "enum" }

Flags == UNION { { Dummy(p, o) : o \in Options(p) } : p \in EnumNames }

\* C14: every free symbol of a successfully parsed Float formula is a Float
\* parameter or a flag of an enum parameter; the parse of a formula for a
\* Float parameter fails with no_such_param when a free symbol names no
\* parameter and no flag, and with dependencies_type when a free symbol is
\* the name of an enum parameter (with either of the two when both occur).
C14_FloatDependencies ==
    (call = "parse" /\ pc # "parse") =>
        /\ parsed.ok =>
              \A f \in FloatFormulas(parsed.expr) :
                  free_symbols(f.expr.ast) \subseteq FloatNames \cup Flags
        /\ (arg_raw.k = "str" /\ Parameters[arg_param].type = "float" /\ arg_raw.valid) =>
              LET unknown == free_symbols(arg_raw.ast) \ (Names \cup Flags)
                  enums == free_symbols(arg_raw.ast) \cap EnumNames
              IN  /\ (unknown # {} /\ enums = {}) => RaisedOnly("no_such_param")
                  /\ (unknown = {} /\ enums # {}) => RaisedOnly("dependencies_type")
                  /\ (unknown # {} /\ enums # {}) =>
                        \/ RaisedOnly("no_such_param")
                        \/ RaisedOnly("dependencies_type")
                  /\ (unknown = {} /\ enums = {}) => parsed.ok

\* the parse of "architecture + 1" for cuda_core raised dependencies_type
C14_Witness ==
    /\ call = "parse" /\ pc = "raised"
    /\ arg_param = "cuda_core"
    /\ arg_raw.k = "str"
    /\ free_symbols(arg_raw.ast) = { "architecture" }
    /\ RaisedOnly("dependencies_type")

\* the values the dependencies can take: a declared option for the enum
\* parameter, with its flags, and a number for each float parameter
Assignments ==
    { inject_flags([ p \in Names |-> IF p = "architecture" THEN VStr(o)
                                     ELSE IF p = "cuda_core" THEN VFloat(c)
                                     ELSE VFloat(l) ], "architecture") :
        o \in Options("architecture"), c \in { 0, 5 }, l \in { 1, 2 } }

\* C20: when an expression was parsed for a parameter, the parse of its
\* raw_version for the same parameter succeeds and gives an expression that
\* evaluates to the same value under every assignment of the dependencies.
C20_RawVersionRoundTrip ==
    (call = "parse" /\ pc = "reparsed") =>
        /\ reparsed.ok
        /\ \A a \in Assignments :
              evaluate_expr(reparsed.expr, a) = evaluate_expr(parsed.expr, a)

\* the round trip of an EnumBranch that holds an EnumBranch and a formula,
\* whose value depends on the assignment
C20_Witness ==
    /\ call = "parse" /\ pc = "reparsed"
    /\ reparsed.ok
    /\ parsed.expr.kind = "ParamEnumExpr"
    /\ parsed.expr.options["Pascal"].kind = "ParamEnumExpr"
    /\ parsed.expr.options["Maxwell"].kind = "ParamFloatExpr"
    /\ \E a, b \in Assignments :
          evaluate_expr(reparsed.expr, a) # evaluate_expr(reparsed.expr, b)

(***************************************************************************)
(* validate_expr (the module function).  A text is a sequence of           *)
(* one-character strings.  Each token pattern is modelled by the length of *)
(* the match re.match finds at the start of the text, 0 when there is      *)
(* none (no pattern matches the empty string).                             *)
(***************************************************************************)
\* longest input of validate_expr, in lexemes
MaxLexemes == 3

\* [a-zA-Z_]
Letters ==
    { "a", "b", "c", "d", "e", "f", "g", "h", "i", "j", "k", "l", "m",
      "n", "o", "p", "q", "r", "s", "t", "u", "v", "w", "x", "y", "z",
      "A", "B", "C", "D", "E", "F", "G", "H", "I", "J", "K", "L", "M",
      "N", "O", "P", "Q", "R", "S", "T", "U", "V", "W", "X", "Y", "Z",
      "_" }

\* \d
Digits == { "0", "1", "2", "3", "4", "5", "6", "7", "8", "9" }

\* \w
Word == Letters \cup Digits

\* \s, for the white space of the inputs
Spaces == { " " }

Drop(s, n) == SubSeq(s, n + 1, Len(s))

\* the length of the longest prefix of s made of characters of C
RECURSIVE RunLength(_, _)
RunLength(s, C) ==
    IF s = << >> \/ s[1] \notin C THEN 0 ELSE 1 + RunLength(Tail(s), C)

StartsWith(s, prefix) == Len(s) >= Len(prefix) /\ SubSeq(s, 1, Len(prefix)) = prefix

\* \w+\b(?=\()
match_FUN_ID(s) ==
    LET n == RunLength(s, Word)
    IN  IF n > 0 /\ Len(s) > n /\ s[n + 1] = "(" THEN n ELSE 0

\* [a-zA-Z_]+
match_ID(s) == RunLength(s, Letters)

\* \-?\d+(\.\d+(e\-?\d+)?)?
match_NUMBER(s) ==
    LET sign == IF StartsWith(s, << "-" >>) THEN 1 ELSE 0
        int == RunLength(Drop(s, sign), Digits)
        r1 == Drop(s, sign + int)
        frac == IF StartsWith(r1, << "." >>) THEN RunLength(Drop(r1, 1), Digits) ELSE 0
        r2 == Drop(r1, 1 + frac)
        esign == IF StartsWith(r2, << "e", "-" >>) THEN 1 ELSE 0
        exp == IF StartsWith(r2, << "e" >>) THEN RunLength(Drop(r2, 1 + esign), Digits) ELSE 0
    IN  IF int = 0 THEN 0
        ELSE IF frac = 0 THEN sign + int
        ELSE IF exp = 0 THEN sign + int + 1 + frac
        ELSE sign + int + 1 + frac + 1 + esign + exp

\* \+|\-|\*{1,2}|/{1,2}|%|/|<=?|>=?|={2}
match_OP(s) ==
    IF s = << >> THEN 0
    ELSE IF s[1] \in { "+", "-", "%" } THEN 1
    ELSE IF s[1] \in { "*", "/" }
         THEN IF StartsWith(s, << s[1], s[1] >>) THEN 2 ELSE 1
    ELSE IF s[1] \in { "<", ">" }
         THEN IF StartsWith(s, << s[1], "=" >>) THEN 2 ELSE 1
    ELSE IF StartsWith(s, << "=", "=" >>) THEN 2
    ELSE 0

\* tokens_patterns, in the order of the dictionary
tokens_patterns == << "FUN_ID", "ID", "NUMBER", "L_PAREN", "R_PAREN", "OP", "COMMA", "WS" >>

\* re.match(tokens_patterns[token], s): the length of the match
match(token, s) ==
    CASE token = "FUN_ID" -> match_FUN_ID(s)
      [] token = "ID" -> match_ID(s)
      [] token = "NUMBER" -> match_NUMBER(s)
      [] token = "L_PAREN" -> IF StartsWith(s, << "(" >>) THEN 1 ELSE 0
      [] token = "R_PAREN" -> IF StartsWith(s, << ")" >>) THEN 1 ELSE 0
      [] token = "OP" -> match_OP(s)
      [] token = "COMMA" -> IF StartsWith(s, << "," >>) THEN 1 ELSE 0
      [] token = "WS" -> RunLength(s, Spaces)

\* the first pattern of tokens_patterns that matches at the start of s
\* ("NONE": the for loop ends without break)
first_token(s) ==
    IF \A i \in 1..Len(tokens_patterns) : match(tokens_patterns[i], s) = 0 THEN "NONE"
    ELSE tokens_patterns[CHOOSE i \in 1..Len(tokens_patterns) :
                            /\ match(tokens_patterns[i], s) > 0
                            /\ \A j \in 1..(i - 1) : match(tokens_patterns[j], s) = 0]

\* a grammar in which an operator may follow an operator
tokens_predecessors_lenient(token) ==
    CASE token \in { "ID", "FUN_ID", "NUMBER" } -> { "OP", "L_PAREN", "COMMA" }
      [] token = "L_PAREN" -> { "OP", "ID", "L_PAREN", "COMMA", "FUN_ID" }
      [] token \in { "R_PAREN", "COMMA" } -> { "NUMBER", "ID", "R_PAREN" }
      [] token = "OP" -> { "NUMBER", "ID", "R_PAREN", "OP" }

tokens_predecessors(token) ==
    CASE token \in { "ID", "FUN_ID", "NUMBER" } -> { "OP", "L_PAREN", "COMMA" }
      [] token = "L_PAREN" -> { "OP", "ID", "L_PAREN", "COMMA", "FUN_ID" }
      [] token \in { "R_PAREN", "COMMA", "OP" } -> { "NUMBER", "ID", "R_PAREN" }

\* re.findall(tokens_patterns["FUN_ID"], text): the runs of word characters
\* that start at no word character's right and end at a "("
fun_names(text) ==
    { SubSeq(text, i, i + match_FUN_ID(Drop(text, i - 1)) - 1) :
        i \in { j \in 1..Len(text) :
                  /\ match_FUN_ID(Drop(text, j - 1)) > 0
                  /\ (j = 1 \/ text[j - 1] \notin Word) } }

\* dir(math) + dir(numpy) + dir(sympy): the names the inputs can spell
allowed_funcs ==
    { << "s", "i", "n" >>, << "c", "o", "s" >>, << "e", "x", "p" >>, << "e" >>,
      << "P", "i", "e", "c", "e", "w", "i", "s", "e" >> }

\* the lexemes the inputs are made of
Lexemes ==
    { << "x" >>, << "2" >>, << "+" >>, << "*" >>, << "-" >>, << "(" >>, << ")" >>,
      << " " >>, << "s", "i", "n" >>, << "f", "o", "o" >> }

\* the texts made of n lexemes
RECURSIVE TextsOf(_)
TextsOf(n) ==
    IF n = 0 THEN { << >> }
    ELSE { t \o l : t \in TextsOf(n - 1), l \in Lexemes }

\* "2*x + sin(y)", "2*x +*", "foo(x)", "foo (x)", "sin (x)", "x - 2", "x-2",
\* "(x + 2) * x", "x) + (x"
Examples ==
    { << "2", "*", "x", " ", "+", " ", "s", "i", "n", "(", "y", ")" >>,
      << "2", "*", "x", " ", "+", "*" >>,
      << "f", "o", "o", "(", "x", ")" >>,
      << "f", "o", "o", " ", "(", "x", ")" >>,
      << "s", "i", "n", " ", "(", "x", ")" >>,
      << "x", " ", "-", " ", "2" >>,
      << "x", "-", "2" >>,
      << "(", "x", " ", "+", " ", "2", ")", " ", "*", " ", "x" >>,
      << "x", ")", " ", "+", " ", "(", "x" >> }

Texts == UNION { TextsOf(n) : n \in 0..MaxLexemes } \cup Examples

InitGrammar ==
    /\ call = "validate_expr"
    /\ pc = "scan"
    /\ expr \in Texts
    /\ expr_copy = expr
    /\ valid = TRUE
    /\ previous_token = "None"
    /\ nb_paren = 0
    /\ arg_raw = Empty
    /\ arg_param = ""
    /\ parsed = Empty
    /\ reparsed = Empty
    /\ raws = Empty
    /\ expressions = Empty
    /\ cycle = Empty
    /\ order = Empty
    /\ done = 0
    /\ ev_values = Empty
    /\ steps = Empty
    /\ values = Empty
    /\ size = 0
    /\ list_values = Empty
    /\ exprs_sets = Empty
    /\ idx = 0
    /\ final_values = Empty
    /\ errors = {}
    /\ warnings = {}
    /\ exc = NoExc
    /\ result = Empty
    /\ scores = {}
    /\ filenorm = {}
    /\ fileweight = NoFile
    /\ u_sum = FALSE
    /\ member = Empty
    /\ converted = Empty
    /\ back = Empty
    /\ INPUT_PANELS = Empty
    /\ OUTPUT_PANELS = Empty
    /\ decorated = Empty

\* one iteration of the while loop of validate_expr, on the locals expr_copy
\* (copy), valid (ok), previous_token (prev) and nb_paren (nb)
loop_body(copy, ok, prev, nb) ==
    LET token == first_token(copy)
        locals(c, v, p, n) ==
            [ expr_copy |-> c, valid |-> v, previous_token |-> p, nb_paren |-> n ]
    IN  IF token = "NONE" THEN locals(copy, FALSE, prev, nb)
        ELSE IF token = "WS" THEN locals(Drop(copy, match(token, copy)), ok, prev, nb)
        ELSE LET count == IF token = "L_PAREN" THEN nb + 1
                          ELSE IF token = "R_PAREN" THEN nb - 1
                          ELSE nb
             IN  IF prev # "None" /\ prev \notin tokens_predecessors(token)
                 THEN locals(Drop(copy, match(token, copy)), FALSE, prev, count)
                 ELSE locals(Drop(copy, match(token, copy)), ok, token, count)

\* the locals when the while loop ends
RECURSIVE while_loop(_, _, _, _)
while_loop(copy, ok, prev, nb) ==
    IF ok /\ Len(copy) > 0
    THEN LET next == loop_body(copy, ok, prev, nb)
         IN  while_loop(next.expr_copy, next.valid, next.previous_token, next.nb_paren)
    ELSE [ expr_copy |-> copy, valid |-> ok, previous_token |-> prev, nb_paren |-> nb ]

\* what validate_expr returns for a text
verdict(text) ==
    LET end == while_loop(text, TRUE, "None", 0)
    IN  end.valid /\ end.nb_paren = 0 /\ fun_names(text) \subseteq allowed_funcs

\* one iteration of the while loop of validate_expr
ScanToken ==
    /\ call = "validate_expr"
    /\ pc = "scan"
    /\ valid /\ Len(expr_copy) > 0
    /\ LET next == loop_body(expr_copy, valid, previous_token, nb_paren)
       IN  /\ expr_copy' = next.expr_copy
           /\ valid' = next.valid
           /\ previous_token' = next.previous_token
           /\ nb_paren' = next.nb_paren
    /\ UNCHANGED << pc, call, expr, exc, result >>
    /\ UNCHANGED << evalVars, batchVars, parseVars, scoreVars, enumVars, panelVars >>

\* the end of the loop and the return of validate_expr
ReturnValid ==
    /\ call = "validate_expr"
    /\ pc = "scan"
    /\ ~(valid /\ Len(expr_copy) > 0)
    /\ result' = (valid /\ nb_paren = 0 /\ fun_names(expr) \subseteq allowed_funcs)
    /\ pc' = "returned"
    /\ UNCHANGED << call, expr, expr_copy, valid, previous_token, nb_paren, exc >>
    /\ UNCHANGED << evalVars, batchVars, parseVars, scoreVars, enumVars, panelVars >>

NextGrammar == ScanToken \/ ReturnValid

SpecGrammar == InitGrammar /\ [][NextGrammar]_vars

(***************************************************************************)
(* Properties of validate_expr                                             *)
(***************************************************************************)
\* the tokens of a text as the patterns cut it, white space left out, up to
\* the end of the text or to the first character no pattern matches
RECURSIVE Lex(_)
Lex(s) ==
    IF s = << >> THEN << >>
    ELSE LET token == first_token(s)
         IN  IF token = "NONE" THEN << [ type |-> "NONE", text |-> s ] >>
             ELSE IF token = "WS" THEN Lex(Drop(s, match(token, s)))
             ELSE << [ type |-> token, text |-> SubSeq(s, 1, match(token, s)) ] >>
                  \o Lex(Drop(s, match(token, s)))

\* an operator token is directly followed by an operator token
ConsecutiveOperators(text) ==
    \E i \in 1..(Len(Lex(text)) - 1) :
        Lex(text)[i].type = "OP" /\ Lex(text)[i + 1].type = "OP"

\* a function identifier of the text is outside the allow-list
ForeignFunction(text) ==
    \E i \in 1..Len(Lex(text)) :
        Lex(text)[i].type = "FUN_ID" /\ Lex(text)[i].text \notin allowed_funcs

SumWithSin == << "2", "*", "x", " ", "+", " ", "s", "i", "n", "(", "y", ")" >>

TrailingOperators == << "2", "*", "x", " ", "+", "*" >>

CallOfFoo == << "f", "o", "o", "(", "x", ")" >>

\* C15: validate_expr answers False for every text in which an operator
\* token directly follows an operator token, white space between them or
\* not, such as "2*x +*", and for every text that holds a function
\* identifier outside the allow-list, such as "foo(x)"; it answers True for
\* "2*x + sin(y)".
C15_OperatorPairsAndForeignFunctionsRejected ==
    (call = "validate_expr" /\ pc = "returned") =>
        /\ ConsecutiveOperators(expr) => result = FALSE
        /\ ForeignFunction(expr) => result = FALSE
        /\ expr \in { TrailingOperators, CallOfFoo } => result = FALSE
        /\ expr = SumWithSin => result = TRUE

\* validate_expr answered False for "2*x +*", stopped by the operator that
\* follows the operator across the white space
C15_Witness ==
    /\ call = "validate_expr" /\ pc = "returned"
    /\ expr = TrailingOperators
    /\ ConsecutiveOperators(expr)
    /\ previous_token = "OP"
    /\ expr_copy = << >>
    /\ ~valid
    /\ result = FALSE

(***************************************************************************)
(* C21                                                                     *)
(***************************************************************************)
\* what evaluate gives for the expression set when its loop follows ord
EvaluationAlong(ord) == evaluate_loop(expressions, Empty, processing(ord))

\* C21: evaluate is deterministic on an acyclic set: whichever order
\* nx.topological_sort and the key order of the map give the loop, the call
\* returns, and returns the mapping this call returned.
C21_EvaluateDeterministic ==
    (call = "evaluate" /\ pc = "returned") =>
        \A ord \in evaluate_order(expressions) :
            /\ EvaluationAlong(ord).ok
            /\ EvaluationAlong(ord).values = result

\* evaluate returned for a set with a dependency and several possible orders
C21_Witness ==
    /\ call = "evaluate" /\ pc = "returned"
    /\ Cardinality(evaluate_order(expressions)) > 1
    /\ dependencies_graph(expressions) # {}
    /\ Cardinality(DOMAIN expressions) = 3

(***************************************************************************)
(* C22                                                                     *)
(***************************************************************************)
\* a call of from_dict that starts with nothing left of an earlier call
FreshCall ==
    /\ pc = "from_dict"
    /\ size = 0 /\ idx = 0
    /\ list_values = Empty /\ exprs_sets = Empty /\ final_values = Empty
    /\ errors = {} /\ warnings = {}
    /\ exc = NoExc /\ result = Empty

\* C22: no step of from_dict changes the mapping it was given, whether the
\* call returns or fails (the catalog is read only); a call made after the
\* call has ended starts from that same mapping with nothing of the ended call.
C22_NoSideEffect ==
    [][ call = "from_dict" =>
          /\ values' = values
          /\ pc \in { "returned", "raised" } => FreshCall' ]_vars

\* from_dict returned for a mapping that lacks a parameter and holds a scalar
\* next to a sequence: the defaults and the broadcast went to list_values only
C22_Witness ==
    /\ Returned
    /\ size = 2
    /\ DOMAIN values = { "cuda_core", "lifespan" }
    /\ values["cuda_core"].list /\ ~values["lifespan"].list
    /\ DOMAIN list_values = Names
    /\ Len(list_values["lifespan"]) = 2

(***************************************************************************)
(* C26                                                                     *)
(***************************************************************************)
\* the calls of logger.warning that tell parameter p has no bounds
NoBoundsAdvisories(p) == { w \in warnings : w.kind = "no_bounds" /\ w.param = p }

\* C26: when from_dict returns, the advisory about the missing bounds of a
\* float parameter without bounds was emitted one time, not once per index
\* of the batch.
C26_AdvisoryEmittedOnce ==
    Returned =>
        \A p \in { q \in Names : Parameters[q].type = "float" /\ ~Parameters[q].bounded } :
            Cardinality(NoBoundsAdvisories(p)) = 1

(***************************************************************************)
(* C25, C27, C28, C29                                                      *)
(***************************************************************************)
Accepted == call = "validate_expr" /\ pc = "returned" /\ result = TRUE

\* the text without its i-th character
Remove(text, i) == SubSeq(text, 1, i - 1) \o SubSeq(text, i + 1, Len(text))

OperatorChars == { "+", "-", "*", "/", "%", "<", ">", "=" }

PunctuationChars == OperatorChars \cup { "(", ")", "," }

\* the positions of the white space that stands next to an operator, a comma
\* or a parenthesis; white space between two operator characters is left out,
\* since without it the two may read as one operator ("* *" and "**")
SeparatingSpaces(text) ==
    { i \in 1..Len(text) :
        /\ text[i] \in Spaces
        /\ \/ i > 1 /\ text[i - 1] \in PunctuationChars
           \/ i < Len(text) /\ text[i + 1] \in PunctuationChars
        /\ ~(/\ i > 1 /\ text[i - 1] \in OperatorChars
             /\ i < Len(text) /\ text[i + 1] \in OperatorChars) }

\* C25: validate_expr gives a text and the same text without a white space
\* that stands next to an operator, a comma or a parenthesis the same verdict.
C25_WhitespaceIrrelevant ==
    (call = "validate_expr" /\ pc = "returned") =>
        \A i \in SeparatingSpaces(expr) : verdict(Remove(expr, i)) = result

\* C27: in a text validate_expr accepts, every identifier that an opening
\* parenthesis follows, white space between them or not, is in the allow-list.
C27_OnlyAllowedFunctionsCalled ==
    Accepted =>
        \A i \in 1..(Len(Lex(expr)) - 1) :
            (Lex(expr)[i].type \in { "ID", "FUN_ID" } /\ Lex(expr)[i + 1].type = "L_PAREN")
                => Lex(expr)[i].text \in allowed_funcs

\* the number of occurrences of character c among the first k of the text
Count(text, c, k) == Cardinality({ i \in 1..k : text[i] = c })

\* C28: in a text validate_expr accepts the parentheses are well nested: no
\* prefix has more closing than opening parentheses, and the whole text has
\* as many of each.
C28_ParenthesesWellNested ==
    Accepted =>
        /\ \A k \in 0..Len(expr) : Count(expr, ")", k) <= Count(expr, "(", k)
        /\ Count(expr, ")", Len(expr)) = Count(expr, "(", Len(expr))

\* C29: a text validate_expr accepts is not empty and its last token that is
\* no white space is a number, an identifier or a closing parenthesis.
C29_EndsWithOperand ==
    Accepted =>
        /\ expr # << >>
        /\ Lex(expr) # << >>
        /\ Lex(expr)[Len(Lex(expr))].type \in { "NUMBER", "ID", "R_PAREN" }

(***************************************************************************)
(* LCIAScores.to_unique_score_df (score.py)                                *)
(*                                                                         *)
(* A csv file is the set of the values of its column `method` (one row per *)
(* method); the numeric columns are left out: the checks of the function   *)
(* read the column `method` only.                                          *)
(***************************************************************************)

\* impact categories a model may have scores for
ModelMethods == { "EFV3_ACIDIFICATION", "EFV3_CLIMATE_CHANGE", "EFV3_WATER_USE" }

\* what the column `method` of a factor file may hold: the categories, and a
\* misspelt one
FileMethods == ModelMethods \cup { "EFV3_CLIMAT_CHANGE" }

\* Series.nunique()
nunique(column) == Cardinality(column)

\* (scores['method'].sort_values().unique() == factor['method'].to_numpy()).all()
same_names(column, factor) == column = factor

\* the warnings to_unique_score_df logs once the normalisation file has passed
\* the check of line 53
factor_warnings(methods, norm, weight) ==
    (IF ~same_names(methods, norm)
     THEN { Warning("names_differ", "filenorm", 0, FALSE) } ELSE {})
    \cup
    (IF weight.given
     THEN IF nunique(methods) = nunique(weight.methods)
          THEN IF ~same_names(methods, weight.methods)
               THEN { Warning("names_differ", "fileweight", 0, FALSE) } ELSE {}
          ELSE { Warning("weighting_not_applied", "fileweight", 0, FALSE) }
     ELSE { Warning("no_weight_file", "fileweight", 0, FALSE) })

\* the weighting factors to_unique_score_df multiplies by: those of the file,
\* or 1 when no file is given or its number of categories differs
weighting_factor(methods, weight) ==
    IF weight.given /\ nunique(methods) = nunique(weight.methods)
    THEN "fileweight" ELSE "ones"

\* the data frame to_unique_score_df returns: one row per impact category of
\* the model, or the single row of their sum
unique_score_df(methods, weight, sum) ==
    [ methods |-> IF sum THEN { "EFV3_UNIQUE_SCORE" } ELSE methods,
      weights |-> weighting_factor(methods, weight) ]

InitScore ==
    /\ call = "to_unique_score_df"
    /\ pc = "to_unique_score_df"
    /\ scores \in (SUBSET ModelMethods) \ { {} }
    /\ filenorm \in (SUBSET FileMethods) \ { {} }
    /\ fileweight \in { NoFile } \cup { File(m) : m \in (SUBSET FileMethods) \ { {} } }
    /\ u_sum \in BOOLEAN
    /\ warnings = {}
    /\ exc = NoExc
    /\ result = Empty
    /\ raws = Empty
    /\ expressions = Empty
    /\ cycle = Empty
    /\ order = Empty
    /\ done = 0
    /\ ev_values = Empty
    /\ steps = Empty
    /\ values = Empty
    /\ size = 0
    /\ list_values = Empty
    /\ exprs_sets = Empty
    /\ idx = 0
    /\ final_values = Empty
    /\ errors = {}
    /\ arg_raw = Empty
    /\ arg_param = ""
    /\ parsed = Empty
    /\ reparsed = Empty
    /\ expr = Empty
    /\ expr_copy = Empty
    /\ valid = TRUE
    /\ previous_token = "None"
    /\ nb_paren = 0
    /\ member = Empty
    /\ converted = Empty
    /\ back = Empty
    /\ INPUT_PANELS = Empty
    /\ OUTPUT_PANELS = Empty
    /\ decorated = Empty

\* the check of line 53 fails: InvalidNormFileError
RaiseInvalidNormFile ==
    /\ call = "to_unique_score_df"
    /\ pc = "to_unique_score_df"
    /\ nunique(scores) # nunique(filenorm)
    /\ exc' = Raised("InvalidNormFileError", "filenorm",
                     { [ nimpact_cat_norm |-> nunique(filenorm),
                         nimpact_cat_mod |-> nunique(scores) ] })
    /\ pc' = "raised"
    /\ UNCHANGED << call, result >>
    /\ UNCHANGED << evalVars, batchVars, parseVars, grammarVars, scoreVars,
                    enumVars, panelVars >>

\* the check of line 53 passes: the warnings are logged and the data frame is
\* returned
ReturnUniqueScore ==
    /\ call = "to_unique_score_df"
    /\ pc = "to_unique_score_df"
    /\ nunique(scores) = nunique(filenorm)
    /\ warnings' = factor_warnings(scores, filenorm, fileweight)
    /\ result' = unique_score_df(scores, fileweight, u_sum)
    /\ pc' = "returned"
    /\ UNCHANGED << call, exc >>
    /\ UNCHANGED << values, size, list_values, exprs_sets, idx, final_values, errors >>
    /\ UNCHANGED << evalVars, parseVars, grammarVars, scoreVars, enumVars, panelVars >>

NextScore == RaiseInvalidNormFile \/ ReturnUniqueScore

SpecScore == InitScore /\ [][NextScore]_vars

(***************************************************************************)
(* Properties of to_unique_score_df                                        *)
(***************************************************************************)

\* the call of to_unique_score_df has ended
ScoreEnded == call = "to_unique_score_df" /\ pc \in { "returned", "raised" }

\* a factor file whose impact categories are not those of the model's scores
NormMismatch == filenorm # scores
WeightMismatch == fileweight.given /\ fileweight.methods # scores

\* C23: computing a unique score raises an exception whenever the impact
\* categories of the normalisation file, or of the weighting file, are not
\* those of the model's scores, be it that their number differs or that the
\* number is the same and a name differs
C23_MismatchRaises ==
    (ScoreEnded /\ (NormMismatch \/ WeightMismatch)) => pc = "raised"

(***************************************************************************)
(* MethodFullName and MethodShortName (impact_methods.py)                  *)
(***************************************************************************)

\* the body of class MethodFullName: its names and their values, in definition order
\* (the typographic quotes of the EF v3.1 values are written ` and ')
MethodFullName_body ==
    << [ name |-> "EFV3_ACIDIFICATION",
         value |-> "('EF v3.0', 'acidification', 'accumulated exceedance (AE)')" ],
       [ name |-> "EFV3_CLIMATE_CHANGE",
         value |-> "('EF v3.0', 'climate change', 'global warming potential (GWP100)')" ],
       [ name |-> "EFV3_CLIMATE_CHANGE_BIOGENIC",
         value |-> "('EF v3.0', 'climate change: biogenic', 'global warming potential (GWP100)')" ],
       [ name |-> "EFV3_CLIMATE_CHANGE_FOSSIL",
         value |-> "('EF v3.0', 'climate change: fossil', 'global warming potential (GWP100)')" ],
       [ name |-> "EFV3_CLIMATE_CHANGE_LAND_USE",
         value |-> "('EF v3.0', 'climate change: land use and land use change', 'global warming potential (GWP100)')" ],
       [ name |-> "EFV3_ECOTOXICITY_FRESHWATER",
         value |-> "('EF v3.0', 'ecotoxicity: freshwater', 'comparative toxic unit for ecosystems (CTUe)')" ],
       [ name |-> "EFV3_ECOTOXICITY_FRESHWATER_INORGANICS",
         value |-> "('EF v3.0', 'ecotoxicity: freshwater, inorganics', 'comparative toxic unit for ecosystems (CTUe)')" ],
       [ name |-> "EFV3_ECOTOXICITY_FRESHWATER_METALS",
         value |-> "('EF v3.0', 'ecotoxicity: freshwater, metals', 'comparative toxic unit for ecosystems (CTUe)')" ],
       [ name |-> "EFV3_ECOTOXICITY_FRESHWATER_ORGANICS",
         value |-> "('EF v3.0', 'ecotoxicity: freshwater, organics', 'comparative toxic unit for ecosystems (CTUe)')" ],
       [ name |-> "EFV3_EUTROPHICATION_FRESHWATER",
         value |-> "('EF v3.0', 'eutrophication: freshwater', 'fraction of nutrients reaching freshwater end compartment (P)')" ],
       [ name |-> "EFV3_EUTROPHICATION_MARINE",
         value |-> "('EF v3.0', 'eutrophication: marine', 'fraction of nutrients reaching marine end compartment (N)')" ],
       [ name |-> "EFV3_EUTROPHICATION_TERRESTRIAL",
         value |-> "('EF v3.0', 'eutrophication: terrestrial', 'accumulated exceedance (AE)')" ],
       [ name |-> "EFV3_HUMAN_TOXICITY_CARCINOGENIC",
         value |-> "('EF v3.0', 'human toxicity: carcinogenic', 'comparative toxic unit for human (CTUh)')" ],
       [ name |-> "EFV3_HUMAN_TOXICITY_CARCINOGENIC_INORGANICS",
         value |-> "('EF v3.0', 'human toxicity: carcinogenic, inorganics', 'comparative toxic unit for human (CTUh)')" ],
       [ name |-> "EFV3_HUMAN_TOXICITY_CARCINOGENIC_METALS",
         value |-> "('EF v3.0', 'human toxicity: carcinogenic, metals', 'comparative toxic unit for human (CTUh)')" ],
       [ name |-> "EFV3_HUMAN_TOXICITY_CARCINOGENIC_ORGANICS",
         value |-> "('EF v3.0', 'human toxicity: carcinogenic, organics', 'comparative toxic unit for human (CTUh)')" ],
       [ name |-> "EFV3_HUMAN_TOXICITY_NON_CARCINOGENIC",
         value |-> "('EF v3.0', 'human toxicity: non-carcinogenic', 'comparative toxic unit for human (CTUh)')" ],
       [ name |-> "EFV3_HUMAN_TOXICITY_NON_CARCINOGENIC_INORGANICS",
         value |-> "('EF v3.0', 'human toxicity: non-carcinogenic, inorganics', 'comparative toxic unit for human (CTUh)')" ],
       [ name |-> "EFV3_HUMAN_TOXICITY_NON_CARCINOGENIC_METALS",
         value |-> "('EF v3.0', 'human toxicity: non-carcinogenic, metals', 'comparative toxic unit for human (CTUh)')" ],
       [ name |-> "EFV3_HUMAN_TOXICITY_NON_CARCINOGENIC_ORGANICS",
         value |-> "('EF v3.0', 'human toxicity: non-carcinogenic, organics', 'comparative toxic unit for human (CTUh)')" ],
       [ name |-> "EFV3_IONISING_RADIATION",
         value |-> "('EF v3.0', 'ionising radiation: human health', 'human exposure efficiency relative to u235')" ],
       [ name |-> "EFV3_LAND_USE",
         value |-> "('EF v3.0', 'land use', 'soil quality index')" ],
       [ name |-> "EFV3_MATERIAL_RESOURCES",
         value |-> "('EF v3.0', 'material resources: metals/minerals', 'abiotic depletion potential (ADP): elements (ultimate reserves)')" ],
       [ name |-> "EFV3_ENERGY_RESOURCES",
         value |-> "('EF v3.0', 'energy resources: non-renewable', 'abiotic depletion potential (ADP): fossil fuels')" ],
       [ name |-> "EFV3_OZONE_DEPLETION",
         value |-> "('EF v3.0', 'ozone depletion', 'ozone depletion potential (ODP)')" ],
       [ name |-> "EFV3_PARTICULATE_MATTER_FORMATION",
         value |-> "('EF v3.0', 'particulate matter formation', 'impact on human health')" ],
       [ name |-> "EFV3_PHOTOCHEMICAL_OZONE_FORMATION",
         value |-> "('EF v3.0', 'photochemical oxidant formation: human health', 'tropospheric ozone concentration increase')" ],
       [ name |-> "EFV3_WATER_USE",
         value |-> "('EF v3.0', 'water use', 'user deprivation potential (deprivation-weighted water consumption)')" ],
       [ name |-> "EFV31_ACIDIFICATION",
         value |-> "(`EF v3.1', `acidification', `accumulated exceedance (AE)')" ],
       [ name |-> "EFV31_CLIMATE_CHANGE",
         value |-> "(`EF v3.1', `climate change', `global warming potential (GWP100)')" ],
       [ name |-> "EFV31_CLIMATE_CHANGE_BIOGENIC",
         value |-> "(`EF v3.1', `climate change: biogenic', `global warming potential (GWP100)')" ],
       [ name |-> "EFV31_CLIMATE_CHANGE_FOSSIL",
         value |-> "(`EF v3.1', `climate change: fossil', `global warming potential (GWP100)')" ],
       [ name |-> "EFV31_CLIMATE_CHANGE_LAND_USE",
         value |-> "(`EF v3.1', `climate change: land use and land use change', `global warming potential (GWP100)')" ],
       [ name |-> "EFV31_ECOTOXICITY_FRESHWATER",
         value |-> "(`EF v3.1', `ecotoxicity: freshwater', `comparative toxic unit for ecosystems (CTUe)')" ],
       [ name |-> "EFV31_ECOTOXICITY_FRESHWATER_INORGANICS",
         value |-> "(`EF v3.1', `ecotoxicity: freshwater, inorganics', `comparative toxic unit for ecosystems (CTUe)')" ],
       [ name |-> "EFV31_ECOTOXICITY_FRESHWATER_ORGANICS",
         value |-> "(`EF v3.1', `ecotoxicity: freshwater, organics', `comparative toxic unit for ecosystems (CTUe)')" ],
       [ name |-> "EFV31_ENERGY_RESOURCES",
         value |-> "(`EF v3.1', `energy resources: non-renewable', `abiotic depletion potential (ADP): fossil fuels')" ],
       [ name |-> "EFV31_EUTROPHICATION_FRESHWATER",
         value |-> "(`EF v3.1', `eutrophication: freshwater', `fraction of nutrients reaching freshwater end compartment (P)')" ],
       [ name |-> "EFV31_EUTROPHICATION_MARINE",
         value |-> "(`EF v3.1', `eutrophication: marine', `fraction of nutrients reaching marine end compartment (N)')" ],
       [ name |-> "EFV31_EUTROPHICATION_TERRESTRIAL",
         value |-> "(`EF v3.1', `eutrophication: terrestrial', `accumulated exceedance (AE)')" ],
       [ name |-> "EFV31_HUMAN_TOXICITY_CARCINOGENIC",
         value |-> "(`EF v3.1', `human toxicity: carcinogenic', `comparative toxic unit for human (CTUh)')" ],
       [ name |-> "EFV31_HUMAN_TOXICITY_CARCINOGENIC_INORGANICS",
         value |-> "(`EF v3.1', `human toxicity: carcinogenic, inorganics', `comparative toxic unit for human (CTUh)')" ],
       [ name |-> "EFV31_HUMAN_TOXICITY_CARCINOGENIC_ORGANICS",
         value |-> "(`EF v3.1', `human toxicity: carcinogenic, organics', `comparative toxic unit for human (CTUh)')" ],
       [ name |-> "EFV31_HUMAN_TOXICITY_NON_CARCINOGENIC",
         value |-> "(`EF v3.1', `human toxicity: non-carcinogenic', `comparative toxic unit for human (CTUh)')" ],
       [ name |-> "EFV31_HUMAN_TOXICITY_NON_CARCINOGENIC_INORGANICS",
         value |-> "(`EF v3.1', `human toxicity: non-carcinogenic, inorganics', `comparative toxic unit for human (CTUh)')" ],
       [ name |-> "EFV31_HUMAN_TOXICITY_NON_CARCINOGENIC_ORGANICS",
         value |-> "(`EF v3.1', `human toxicity: non-carcinogenic, organics', `comparative toxic unit for human (CTUh)')" ],
       [ name |-> "EFV31_IONISING_RADIATION",
         value |-> "(`EF v3.1', `ionising radiation: human health', `human exposure efficiency relative to u235')" ],
       [ name |-> "EFV31_LAND_USE",
         value |-> "(`EF v3.1', `land use', `soil quality index')" ],
       [ name |-> "EFV31_MATERIAL_RESOURCES",
         value |-> "(`EF v3.1', `material resources: metals/minerals', `abiotic depletion potential (ADP): elements (ultimate reserves)')" ],
       [ name |-> "EFV31_OZONE_DEPLETION",
         value |-> "(`EF v3.1', `ozone depletion', `ozone depletion potential (ODP)')" ],
       [ name |-> "EFV31_PARTICULATE_MATTER_FORMATION",
         value |-> "(`EF v3.1', `particulate matter formation', `impact on human health')" ],
       [ name |-> "EFV31_PHOTOCHEMICAL_OZONE_FORMATION",
         value |-> "(`EF v3.1', `photochemical oxidant formation: human health', `tropospheric ozone concentration increase')" ],
       [ name |-> "EFV31_WATER_USE",
         value |-> "(`EF v3.1', `water use', `user deprivation potential (deprivation-weighted water consumption)')" ] >>

\* the body of class MethodShortName: its names and their values, in definition order
MethodShortName_body ==
    << [ name |-> "EFV3_ACIDIFICATION",
         value |-> "Acification (AE)" ],
       [ name |-> "EFV3_CLIMATE_CHANGE",
         value |-> "Climate change (GWP100)" ],
       [ name |-> "EFV3_CLIMATE_CHANGE_BIOGENIC",
         value |-> "Climate change: biogenic (GWP100)" ],
       [ name |-> "EFV3_CLIMATE_CHANGE_FOSSIL",
         value |-> "Climate change: fossil (GWP100)" ],
       [ name |-> "EFV3_CLIMATE_CHANGE_LAND_USE",
         value |-> "Climate change: land use/land use change (GWP100)" ],
       [ name |-> "EFV3_ECOTOXICITY_FRESHWATER",
         value |-> "Ecotoxicity: freshwater (CTUe)" ],
       [ name |-> "EFV3_ECOTOXICITY_FRESHWATER_INORGANICS",
         value |-> "Ecotoxicity: freshwater, inorganics (CTUe)" ],
       [ name |-> "EFV3_ECOTOXICITY_FRESHWATER_METALS",
         value |-> "Ecotoxicity: freshwater, metals (CTUe)" ],
       [ name |-> "EFV3_ECOTOXICITY_FRESHWATER_ORGANICS",
         value |-> "Ecotoxicity: freshwater, organics (CTUe)" ],
       [ name |-> "EFV3_EUTROPHICATION_FRESHWATER",
         value |-> "Eutrophication: freshwater (kgPeq)" ],
       [ name |-> "EFV3_EUTROPHICATION_MARINE",
         value |-> "Eutrophication: marine (N)" ],
       [ name |-> "EFV3_EUTROPHICATION_TERRESTRIAL",
         value |-> "Eutrophication: terrestrial (AE)" ],
       [ name |-> "EFV3_HUMAN_TOXICITY_CARCINOGENIC",
         value |-> "Human toxicity: carcinogenic (CTUh)" ],
       [ name |-> "EFV3_HUMAN_TOXICITY_CARCINOGENIC_INORGANICS",
         value |-> "Human toxicity: carcinogenic, inorganics (CTUh)" ],
       [ name |-> "EFV3_HUMAN_TOXICITY_CARCINOGENIC_METALS",
         value |-> "Human toxicity: carcinogenic, metals (CTUh)" ],
       [ name |-> "EFV3_HUMAN_TOXICITY_CARCINOGENIC_ORGANICS",
         value |-> "Human toxicity: carcinogenic, organics (CTUh)" ],
       [ name |-> "EFV3_HUMAN_TOXICITY_NON_CARCINOGENIC",
         value |-> "Human toxicity: non-carcinogenic (CTUh)" ],
       [ name |-> "EFV3_HUMAN_TOXICITY_NON_CARCINOGENIC_INORGANICS",
         value |-> "Human toxicity: non-carcinogenic, inorganics (CTUh)" ],
       [ name |-> "EFV3_HUMAN_TOXICITY_NON_CARCINOGENIC_METALS",
         value |-> "Human toxicity: non-carcinogenic, metals (CTUh)" ],
       [ name |-> "EFV3_HUMAN_TOXICITY_NON_CARCINOGENIC_ORGANICS",
         value |-> "Human toxicity: non-carcinogenic, organics (CTUh)" ],
       [ name |-> "EFV3_IONISING_RADIATION",
         value |-> "Ionising radiation: human health (kBqU235)" ],
       [ name |-> "EFV3_LAND_USE",
         value |-> "Land use (soil quality index)" ],
       [ name |-> "EFV3_MATERIAL_RESOURCES",
         value |-> "Resource use, metals and minerals (kgSbeq)" ],
       [ name |-> "EFV3_ENERGY_RESOURCES",
         value |-> "Energy use, energy carriers (MJ)" ],
       [ name |-> "EFV3_OZONE_DEPLETION",
         value |-> "Ozone depletion (ODP)" ],
       [ name |-> "EFV3_PARTICULATE_MATTER_FORMATION",
         value |-> "Particulate matter formation: impact on human health (disease incidences)" ],
       [ name |-> "EFV3_PHOTOCHEMICAL_OZONE_FORMATION",
         value |-> "Photochemical ozone formation (kgNMVOCeq)" ],
       [ name |-> "EFV3_WATER_USE",
         value |-> "Depr.-weighted water cons. (kg world eq. deprived)" ],
       [ name |-> "EFV31_ACIDIFICATION",
         value |-> "Acification (AE)" ],
       [ name |-> "EFV31_CLIMATE_CHANGE",
         value |-> "Climate change (GWP100)" ],
       [ name |-> "EFV31_CLIMATE_CHANGE_BIOGENIC",
         value |-> "Climate change: biogenic (GWP100)" ],
       [ name |-> "EFV31_CLIMATE_CHANGE_FOSSIL",
         value |-> "Climate change: fossil (GWP100)" ],
       [ name |-> "EFV31_CLIMATE_CHANGE_LAND_USE",
         value |-> "Climate change: land use/land use change (GWP100)" ],
       [ name |-> "EFV31_ECOTOXICITY_FRESHWATER",
         value |-> "Ecotoxicity: freshwater (CTUe)" ],
       [ name |-> "EFV31_ECOTOXICITY_FRESHWATER_INORGANICS",
         value |-> "Ecotoxicity: freshwater, inorganics (CTUe)" ],
       [ name |-> "EFV31_ECOTOXICITY_FRESHWATER_ORGANICS",
         value |-> "Ecotoxicity: freshwater, organics (CTUe)" ],
       [ name |-> "EFV31_EUTROPHICATION_FRESHWATER",
         value |-> "Eutrophication: freshwater (kgPeq)" ],
       [ name |-> "EFV31_EUTROPHICATION_MARINE",
         value |-> "Eutrophication: marine (N)" ],
       [ name |-> "EFV31_EUTROPHICATION_TERRESTRIAL",
         value |-> "Eutrophication: terrestrial (AE)" ],
       [ name |-> "EFV31_HUMAN_TOXICITY_CARCINOGENIC",
         value |-> "Human toxicity: carcinogenic (CTUh)" ],
       [ name |-> "EFV31_HUMAN_TOXICITY_CARCINOGENIC_INORGANICS",
         value |-> "Human toxicity: carcinogenic, inorganics (CTUh)" ],
       [ name |-> "EFV31_HUMAN_TOXICITY_CARCINOGENIC_ORGANICS",
         value |-> "Human toxicity: carcinogenic, organics (CTUh)" ],
       [ name |-> "EFV31_HUMAN_TOXICITY_NON_CARCINOGENIC",
         value |-> "Human toxicity: non-carcinogenic (CTUh)" ],
       [ name |-> "EFV31_HUMAN_TOXICITY_NON_CARCINOGENIC_INORGANICS",
         value |-> "Human toxicity: non-carcinogenic, inorganics (CTUh)" ],
       [ name |-> "EFV31_HUMAN_TOXICITY_NON_CARCINOGENIC_ORGANICS",
         value |-> "Human toxicity: non-carcinogenic, organics (CTUh)" ],
       [ name |-> "EFV31_IONISING_RADIATION",
         value |-> "Ionising radiation: human health (kBqU235)" ],
       [ name |-> "EFV31_LAND_USE",
         value |-> "Land use (soil quality index)" ],
       [ name |-> "EFV31_MATERIAL_RESOURCES",
         value |-> "Resource use, metals and minerals (kgSbeq)" ],
       [ name |-> "EFV31_OZONE_DEPLETION",
         value |-> "Ozone depletion (ODP)" ],
       [ name |-> "EFV31_ENERGY_RESOURCES",
         value |-> "Energy use, energy carriers (MJ)" ],
       [ name |-> "EFV31_PARTICULATE_MATTER_FORMATION",
         value |-> "Particulate matter formation: impact on human health (disease incidences)" ],
       [ name |-> "EFV31_PHOTOCHEMICAL_OZONE_FORMATION",
         value |-> "Photochemical ozone formation (kgNMVOCeq)" ],
       [ name |-> "EFV31_WATER_USE",
         value |-> "Depr.-weighted water cons. (kg world eq. deprived)" ] >>
\* a class body without `_settings_`
no_settings == {}

\* `_settings_` of the two classes
MethodFullName_settings == {}
MethodShortName_settings == { "NoAlias" }

\* Enum: the place in the body of the member a name stands for. With NoAlias
\* every name is a member of its own; otherwise a name whose value an earlier
\* name already has is an alias of that earlier member
canonical(body, settings, i) ==
    IF "NoAlias" \in settings THEN i
    ELSE CHOOSE j \in 1..i :
            /\ body[j].value = body[i].value
            /\ \A k \in 1..(j - 1) : body[k].value # body[i].value

\* a member of the class cls
Member(cls, entry) == [ enum |-> cls, name |-> entry.name, value |-> entry.value ]

\* the failure of Enum[name]
KeyError(name) == [ enum |-> "KeyError", name |-> name, value |-> "" ]

\* iter(Enum): the members of a class, aliases left out
members(cls, body, settings) ==
    { Member(cls, body[i]) : i \in { k \in DOMAIN body : canonical(body, settings, k) = k } }

\* Enum[name]
getitem(cls, body, settings, name) ==
    IF \E i \in DOMAIN body : body[i].name = name
    THEN LET i == CHOOSE k \in DOMAIN body : body[k].name = name
         IN  Member(cls, body[canonical(body, settings, i)])
    ELSE KeyError(name)

MethodFullName == members("MethodFullName", MethodFullName_body, MethodFullName_settings)

MethodShortName == members("MethodShortName", MethodShortName_body, MethodShortName_settings)

\* MethodFullName.to_short_name
to_short_name(self) ==
    getitem("MethodShortName", MethodShortName_body, MethodShortName_settings, self.name)

\* MethodShortName.to_full_name
to_full_name(self) ==
    getitem("MethodFullName", MethodFullName_body, MethodFullName_settings, self.name)

InitEnum ==
    /\ call = "convert"
    /\ pc = "member"
    /\ member \in MethodFullName \cup MethodShortName
    /\ converted = Empty
    /\ back = Empty
    /\ warnings = {}
    /\ exc = NoExc
    /\ result = Empty
    /\ raws = Empty
    /\ expressions = Empty
    /\ cycle = Empty
    /\ order = Empty
    /\ done = 0
    /\ ev_values = Empty
    /\ steps = Empty
    /\ values = Empty
    /\ size = 0
    /\ list_values = Empty
    /\ exprs_sets = Empty
    /\ idx = 0
    /\ final_values = Empty
    /\ errors = {}
    /\ arg_raw = Empty
    /\ arg_param = ""
    /\ parsed = Empty
    /\ reparsed = Empty
    /\ expr = Empty
    /\ expr_copy = Empty
    /\ valid = TRUE
    /\ previous_token = "None"
    /\ nb_paren = 0
    /\ scores = {}
    /\ filenorm = {}
    /\ fileweight = NoFile
    /\ u_sum = FALSE
    /\ INPUT_PANELS = Empty
    /\ OUTPUT_PANELS = Empty
    /\ decorated = Empty

\* the member the next conversion is called on: `member`, then what its
\* conversion returned
Self == IF pc = "member" THEN member ELSE converted

\* a conversion returned (or failed with) `outcome`
Converted(outcome) ==
    /\ IF pc = "member"
       THEN converted' = outcome /\ back' = back
       ELSE converted' = converted /\ back' = outcome
    /\ pc' = IF outcome.enum = "KeyError" THEN "raised"
             ELSE IF pc = "member" THEN "converted" ELSE "back"
    /\ exc' = IF outcome.enum = "KeyError" THEN Raised("KeyError", outcome.name, {})
              ELSE exc
    /\ UNCHANGED << call, member, result >>
    /\ UNCHANGED << evalVars, batchVars, parseVars, grammarVars, scoreVars, panelVars >>

\* self.to_short_name() on a member of MethodFullName
ToShortName ==
    /\ call = "convert"
    /\ pc \in { "member", "converted" }
    /\ Self.enum = "MethodFullName"
    /\ Converted(to_short_name(Self))

\* self.to_full_name() on a member of MethodShortName
ToFullName ==
    /\ call = "convert"
    /\ pc \in { "member", "converted" }
    /\ Self.enum = "MethodShortName"
    /\ Converted(to_full_name(Self))

NextEnum == ToShortName \/ ToFullName

SpecEnum == InitEnum /\ [][NextEnum]_vars

(***************************************************************************)
(* Properties of the conversions                                           *)
(***************************************************************************)

\* {elem.name for elem in cls}
MemberNames(cls) == { m.name : m \in cls }

\* the class a conversion of a member of cls leads to
OtherEnum(cls) == IF cls = "MethodFullName" THEN "MethodShortName" ELSE "MethodFullName"

\* C24: MethodFullName and MethodShortName have the same member names, so
\* to_short_name() and to_full_name() are defined for every member (they
\* return the member of the other class with the same name) and converting
\* there and back returns the member one started from
C24_SameMemberNamesAndRoundTrip ==
    /\ MemberNames(MethodFullName) = MemberNames(MethodShortName)
    /\ call = "convert" =>
        /\ pc # "raised"
        /\ pc \in { "converted", "back" } =>
            /\ converted.enum = OtherEnum(member.enum)
            /\ converted.name = member.name
            /\ converted \in MethodFullName \cup MethodShortName
        /\ pc = "back" => back = member

\* a member of MethodShortName that shares its value with another member was
\* converted to its full name and back
C24_Witness ==
    /\ call = "convert"
    /\ pc = "back"
    /\ member.enum = "MethodShortName"
    /\ \E other \in MethodShortName : other.value = member.value /\ other.name # member.name
    /\ converted.enum = "MethodFullName"
    /\ back = member

(***************************************************************************)
(* register_panel and the panel registries (gui/panels/base.py)            *)
(***************************************************************************)

\* the number of decorated classes
MaxCalls == 3

\* a class, with those of InputPanel and OutputPanel it inherits from
Class(name, bases) == [ name |-> name, bases |-> bases ]

\* classes one may decorate: two output panels, two input panels, one that is
\* both and one that is neither
PanelClasses ==
    { Class("MarkdownPanel", { "OutputPanel" }),
      Class("PlotPanel", { "OutputPanel" }),
      Class("InputScenarioFormPanel", { "InputPanel" }),
      Class("SliderPanel", { "InputPanel" }),
      Class("FormWithPlotPanel", { "InputPanel", "OutputPanel" }),
      Class("Settings", {}) }

\* arguments `panel_type`
PanelTypes == { "markdown", "input_scenario_form_panel" }

issubclass(cls, base) == base \in cls.bases

\* the mutation where a second registration replaces the first
register_last(registry, panel_type, decorated_class) ==
    [ t \in (DOMAIN registry) \cup { panel_type } |->
        IF t = panel_type THEN decorated_class ELSE registry[t] ]

\* `if panel_type not in REGISTRY: REGISTRY[panel_type] = decorated_class`
register(registry, panel_type, decorated_class) ==
    IF panel_type \notin DOMAIN registry
    THEN [ t \in (DOMAIN registry) \cup { panel_type } |->
            IF t = panel_type THEN decorated_class ELSE registry[t] ]
    ELSE registry

InitPanel ==
    /\ call = "register_panel"
    /\ pc = "module"
    /\ INPUT_PANELS = Empty
    /\ OUTPUT_PANELS = Empty
    /\ decorated = Empty
    /\ warnings = {}
    /\ exc = NoExc
    /\ result = Empty
    /\ raws = Empty
    /\ expressions = Empty
    /\ cycle = Empty
    /\ order = Empty
    /\ done = 0
    /\ ev_values = Empty
    /\ steps = Empty
    /\ values = Empty
    /\ size = 0
    /\ list_values = Empty
    /\ exprs_sets = Empty
    /\ idx = 0
    /\ final_values = Empty
    /\ errors = {}
    /\ arg_raw = Empty
    /\ arg_param = ""
    /\ parsed = Empty
    /\ reparsed = Empty
    /\ expr = Empty
    /\ expr_copy = Empty
    /\ valid = TRUE
    /\ previous_token = "None"
    /\ nb_paren = 0
    /\ scores = {}
    /\ filenorm = {}
    /\ fileweight = NoFile
    /\ u_sum = FALSE
    /\ member = Empty
    /\ converted = Empty
    /\ back = Empty

\* register_panel(panel_type)(decorated_class)
RegisterPanel ==
    /\ call = "register_panel"
    /\ Len(decorated) < MaxCalls
    /\ \E panel_type \in PanelTypes, decorated_class \in PanelClasses :
        /\ decorated' = Append(decorated, [ panel_type |-> panel_type,
                                            class |-> decorated_class ])
        /\ IF issubclass(decorated_class, "OutputPanel")
           THEN /\ OUTPUT_PANELS' = register(OUTPUT_PANELS, panel_type, decorated_class)
                /\ INPUT_PANELS' = INPUT_PANELS
                /\ result' = decorated_class
                /\ exc' = NoExc
                /\ pc' = "returned"
           ELSE IF issubclass(decorated_class, "InputPanel")
           THEN /\ INPUT_PANELS' = register(INPUT_PANELS, panel_type, decorated_class)
                /\ OUTPUT_PANELS' = OUTPUT_PANELS
                /\ result' = decorated_class
                /\ exc' = NoExc
                /\ pc' = "returned"
           ELSE /\ exc' = Raised("TypeError", panel_type, {})
                /\ pc' = "raised"
                /\ UNCHANGED << INPUT_PANELS, OUTPUT_PANELS, result >>
    /\ UNCHANGED call
    /\ UNCHANGED << evalVars, batchVars, parseVars, grammarVars, scoreVars, enumVars >>

\* what looking panel_type up in a registry sets: the class, or a KeyError
Lookup(registry, panel_type) ==
    IF panel_type \in DOMAIN registry
    THEN result' = registry[panel_type] /\ exc' = NoExc /\ pc' = "returned"
    ELSE result' = result /\ exc' = Raised("KeyError", panel_type, {}) /\ pc' = "raised"

\* get_input_panel(panel_type)
GetInputPanel ==
    /\ call = "register_panel"
    /\ \E panel_type \in PanelTypes : Lookup(INPUT_PANELS, panel_type)
    /\ UNCHANGED call
    /\ UNCHANGED << evalVars, batchVars, parseVars, grammarVars, scoreVars, enumVars,
                    panelVars >>

\* get_output_panel(panel_type)
GetOutputPanel ==
    /\ call = "register_panel"
    /\ \E panel_type \in PanelTypes : Lookup(OUTPUT_PANELS, panel_type)
    /\ UNCHANGED call
    /\ UNCHANGED << evalVars, batchVars, parseVars, grammarVars, scoreVars, enumVars,
                    panelVars >>

NextPanel == RegisterPanel \/ GetInputPanel \/ GetOutputPanel

SpecPanel == InitPanel /\ [][NextPanel]_vars

(***************************************************************************)
(* Properties of the panel registries                                      *)
(***************************************************************************)

\* the registry a decorated class goes to, "none" when the decorator raises
RegistryOf(cls) ==
    IF issubclass(cls, "OutputPanel") THEN "OUTPUT_PANELS"
    ELSE IF issubclass(cls, "InputPanel") THEN "INPUT_PANELS"
    ELSE "none"

\* the places in the history of the registrations under `panel_type` in the
\* registry called `name`
Registrations(name, panel_type) ==
    { i \in DOMAIN decorated :
        decorated[i].panel_type = panel_type /\ RegistryOf(decorated[i].class) = name }

\* the registry called `name` holds, for each panel type, the first class
\* registered under it, and nothing else
KeepsFirst(name, registry) ==
    \A panel_type \in PanelTypes :
        LET regs == Registrations(name, panel_type)
        IN  IF regs = {} THEN panel_type \notin DOMAIN registry
            ELSE /\ panel_type \in DOMAIN registry
                 /\ registry[panel_type] =
                        decorated[CHOOSE i \in regs : \A j \in regs : i <= j].class

\* C30: after any sequence of register_panel calls each name of INPUT_PANELS
\* and of OUTPUT_PANELS maps to the first class registered under it in that
\* registry: a later registration under the name changes nothing, and no
\* entry is removed or replaced
C30_FirstRegistrationKept ==
    call = "register_panel" =>
        /\ KeepsFirst("INPUT_PANELS", INPUT_PANELS)
        /\ KeepsFirst("OUTPUT_PANELS", OUTPUT_PANELS)
        /\ DOMAIN INPUT_PANELS \subseteq PanelTypes
        /\ DOMAIN OUTPUT_PANELS \subseteq PanelTypes

\* two different classes were registered under one name in one registry, and
\* the registry holds the first
C30_Witness ==
    /\ call = "register_panel"
    /\ \E i, j \in DOMAIN decorated :
        /\ i < j
        /\ decorated[i].panel_type = decorated[j].panel_type
        /\ decorated[i].class # decorated[j].class
        /\ RegistryOf(decorated[i].class) = "INPUT_PANELS"
        /\ RegistryOf(decorated[j].class) = "INPUT_PANELS"
        /\ INPUT_PANELS[decorated[i].panel_type] = decorated[i].class

====
